---- MODULE Spec2Model ----
(***************************************************************************)
(* Model of the rtgPOC agentic checkout service: the checkout session      *)
(* routes (routes/agentic-checkout.js), the delegated token vault          *)
(* (services/DelegatedTokenManager.js, routes/delegated-payment.js), the   *)
(* idempotency middleware (middleware/agentic-commerce.js) and the cart    *)
(* state builder (services/CartStateBuilder.js).                           *)
(*                                                                         *)
(* Node runs each handler synchronously up to its next `await`; every      *)
(* action below is one such synchronous segment.  The data file            *)
(* data/orders.json is the variable `file`; a handler's `data` is the      *)
(* whole-file snapshot it parsed with readData().                          *)
(*                                                                         *)
(* Optional JavaScript values (undefined / null / absent member) are       *)
(* sequences of length 0, present values sequences of length 1.            *)
(* One clock tick stands for 30 minutes.                                   *)
(***************************************************************************)
EXTENDS Integers, Sequences, FiniteSets, TLC

VARIABLES file, idempotencyStore, reqs, now, uuid, probe, webhooks, webhookUrl

vars == <<file, idempotencyStore, reqs, now, uuid, probe, webhooks, webhookUrl>>

(* ---------------- bounds ---------------- *)
MaxReq == 2
MaxTime == 2
MaxSessions == 2
MaxTokens == 2

(* ---------------- program constants ---------------- *)
\* CHECKOUT_SESSION_EXPIRY_MINUTES default "30", in clock ticks of 30 minutes
CHECKOUT_SESSION_EXPIRY == 1
\* DEFAULT_TAX_RATE default "0.08", in percent
TaxRatePercent == 8
standardCost == 599
expressCost == 1999
\* catalog price of the one known product, in cents per unit
ProductPriceCents == 300

Currency == "usd"

None == <<>>
Some(v) == <<v>>
IsSet(o) == Len(o) > 0
\* a merge that keeps the second value whenever there is one
OrElse_PrefersSecond(a, b) == IF IsSet(b) THEN b ELSE a

\* JavaScript `a || b` on optional values
OrElse(a, b) == IF IsSet(a) THEN a ELSE b

Reqs == 1..MaxReq
Times == 0..MaxTime

(* ---------------- CartStateBuilder ---------------- *)

\* Math.round(x * taxRate) for an integer amount x
RoundTax(x) == (x * TaxRatePercent + 50) \div 100

\* productService.getProductById: the catalog knows one product
KnownProduct(id) == id = "p1"

\* one iteration of the loop of buildLineItems for a resolvable item
LineItemOf(item, t) ==
  LET baseAmount == ProductPriceCents * item.quantity
      discount == 0
      subtotal == baseAmount - discount
      tax == RoundTax(subtotal)
  IN [id |-> <<item.id, t>>, item |-> item, base_amount |-> baseAmount,
      discount |-> discount, subtotal |-> subtotal, tax |-> tax,
      total |-> subtotal + tax]

ItemError(item) ==
  [type |-> "error", code |-> "invalid", param |-> item.id]

RECURSIVE buildLineItemsFrom(_, _, _)
buildLineItemsFrom(items, i, t) ==
  IF i > Len(items) THEN [lineItems |-> <<>>, errors |-> <<>>]
  ELSE LET rest == buildLineItemsFrom(items, i + 1, t)
       IN IF KnownProduct(items[i].id)
          THEN [lineItems |-> <<LineItemOf(items[i], t)>> \o rest.lineItems,
                errors |-> rest.errors]
          ELSE [lineItems |-> rest.lineItems,
                errors |-> <<ItemError(items[i])>> \o rest.errors]

buildLineItems(items, t) == buildLineItemsFrom(items, 1, t)

RECURSIVE SumField(_, _)
SumField(seq, f) ==
  IF seq = <<>> THEN 0 ELSE Head(seq)[f] + SumField(Tail(seq), f)

\* totals whose grand total leaves the tax out
buildTotals_TaxLeftOut(lineItems, selectedFulfillment) ==
  LET itemsBaseAmount == SumField(lineItems, "base_amount")
      itemsDiscount == SumField(lineItems, "discount")
      subtotalAmount == itemsBaseAmount - itemsDiscount
      fulfillmentCost == IF IsSet(selectedFulfillment)
                         THEN selectedFulfillment[1].subtotal ELSE 0
      itemsTax == SumField(lineItems, "tax")
      fulfillmentTax == IF IsSet(selectedFulfillment)
                        THEN selectedFulfillment[1].tax ELSE 0
      totalTax == itemsTax + fulfillmentTax
      grandTotal == subtotalAmount + fulfillmentCost
  IN <<[type |-> "items_base_amount", amount |-> itemsBaseAmount],
       [type |-> "subtotal", amount |-> subtotalAmount],
       [type |-> "fulfillment", amount |-> fulfillmentCost],
       [type |-> "tax", amount |-> totalTax],
       [type |-> "total", amount |-> grandTotal]>>

buildTotals(lineItems, selectedFulfillment) ==
  LET itemsBaseAmount == SumField(lineItems, "base_amount")
      itemsDiscount == SumField(lineItems, "discount")
      subtotalAmount == itemsBaseAmount - itemsDiscount
      cartDiscount == 0
      fulfillmentCost == IF IsSet(selectedFulfillment)
                         THEN selectedFulfillment[1].subtotal ELSE 0
      itemsTax == SumField(lineItems, "tax")
      fulfillmentTax == IF IsSet(selectedFulfillment)
                        THEN selectedFulfillment[1].tax ELSE 0
      totalTax == itemsTax + fulfillmentTax
      fees == 0
      grandTotal == subtotalAmount - cartDiscount + fulfillmentCost + totalTax + fees
  IN <<[type |-> "items_base_amount", amount |-> itemsBaseAmount]>>
     \o (IF itemsDiscount > 0
         THEN <<[type |-> "items_discount", amount |-> itemsDiscount]>> ELSE <<>>)
     \o <<[type |-> "subtotal", amount |-> subtotalAmount]>>
     \o (IF cartDiscount > 0
         THEN <<[type |-> "discount", amount |-> cartDiscount]>> ELSE <<>>)
     \o <<[type |-> "fulfillment", amount |-> fulfillmentCost]>>
     \o <<[type |-> "tax", amount |-> totalTax]>>
     \o (IF fees > 0 THEN <<[type |-> "fee", amount |-> fees]>> ELSE <<>>)
     \o <<[type |-> "total", amount |-> grandTotal]>>

buildFulfillmentOptions ==
  <<[id |-> "shipping_standard", subtotal |-> standardCost,
     tax |-> RoundTax(standardCost), total |-> standardCost + RoundTax(standardCost)],
    [id |-> "shipping_express", subtotal |-> expressCost,
     tax |-> RoundTax(expressCost), total |-> expressCost + RoundTax(expressCost)]>>

\* fulfillmentOptions.find((opt) => opt.id === fulfillmentOptionId)
FindOption(options, id) ==
  IF \E i \in 1..Len(options) : options[i].id = id
  THEN Some(options[CHOOSE i \in 1..Len(options) :
                      /\ options[i].id = id
                      /\ \A j \in 1..(i - 1) : options[j].id # id])
  ELSE None

\* a status that does not look at the messages
calculateStatus_IgnoresMessages(hasAddress, hasItems, hasSelectedShipping, messages) ==
  IF ~hasItems THEN "not_ready_for_payment"
  ELSE IF ~hasAddress THEN "not_ready_for_payment"
  ELSE IF ~hasSelectedShipping THEN "not_ready_for_payment"
  ELSE "ready_for_payment"

calculateStatus(hasAddress, hasItems, hasSelectedShipping, messages) ==
  IF \E i \in 1..Len(messages) : messages[i].type = "error"
  THEN "not_ready_for_payment"
  ELSE IF ~hasItems THEN "not_ready_for_payment"
  ELSE IF ~hasAddress THEN "not_ready_for_payment"
  ELSE IF ~hasSelectedShipping THEN "not_ready_for_payment"
  ELSE "ready_for_payment"

\* buildCheckoutSession without an rtgCartId; t is Date.now() while building.
\* The timestamps and the order are the members the routes add afterwards.
buildCheckoutSession(sessionId, buyer, items, fulfillmentAddress, fulfillmentOptionId, t) ==
  LET built == buildLineItems(items, t)
      fulfillmentOptions == IF IsSet(fulfillmentAddress)
                            THEN buildFulfillmentOptions ELSE <<>>
      lookup == IsSet(fulfillmentOptionId) /\ Len(fulfillmentOptions) > 0
      selectedFulfillment == IF lookup
                             THEN FindOption(fulfillmentOptions, fulfillmentOptionId[1])
                             ELSE None
      errors == built.errors \o
                (IF lookup /\ ~IsSet(selectedFulfillment)
                 THEN <<[type |-> "error", code |-> "invalid",
                         param |-> "$.fulfillment_option_id"]>>
                 ELSE <<>>)
      infoMessages == IF ~IsSet(fulfillmentAddress)
                      THEN <<[type |-> "info", code |-> "info", param |-> "address"]>>
                      ELSE IF ~IsSet(fulfillmentOptionId)
                      THEN <<[type |-> "info", code |-> "info", param |-> "shipping"]>>
                      ELSE <<>>
      messages == errors \o infoMessages
  IN [id |-> sessionId,
      status |-> calculateStatus(IsSet(fulfillmentAddress), Len(built.lineItems) > 0,
                                 IsSet(selectedFulfillment), messages),
      currency |-> Currency,
      line_items |-> built.lineItems,
      totals |-> buildTotals(built.lineItems, selectedFulfillment),
      fulfillment_options |-> fulfillmentOptions,
      messages |-> messages,
      buyer |-> buyer,
      fulfillment_address |-> fulfillmentAddress,
      fulfillment_option_id |-> fulfillmentOptionId,
      created_at |-> None, expires_at |-> None, updated_at |-> None,
      completed_at |-> None, canceled_at |-> None, order |-> None]

\* an amount taken from the subtotal entry
TotalAmount_OfSubtotal(session) ==
  LET idx == {i \in 1..Len(session.totals) : session.totals[i].type = "subtotal"}
  IN IF idx = {} THEN 0
     ELSE session.totals[CHOOSE i \in idx : \A j \in idx : i <= j].amount

\* session.totals.find((t) => t.type === "total"), 0 when absent
TotalAmount(session) ==
  LET idx == {i \in 1..Len(session.totals) : session.totals[i].type = "total"}
  IN IF idx = {} THEN 0
     ELSE session.totals[CHOOSE i \in idx : \A j \in idx : i <= j].amount


(* ---------------- DelegatedTokenManager ---------------- *)

VaultTokenId(n) == [prefix |-> "vt_", n |-> n]
StripeTokenId(n) == [prefix |-> "tok_", n |-> n]

\* storeToken: the record written under data.delegated_tokens[vaultTokenId]
NewToken(vaultTokenId, stripeTokenId, allowance, t) ==
  [id |-> vaultTokenId, stripe_token_id |-> stripeTokenId,
   allowance |-> allowance, created |-> t, used |-> FALSE, used_at |-> None]

TokenError(code) == [type |-> "invalid_request", code |-> code]

\* a validation without the amount check
validateAllowance_NoAmountCheck(tokens, vaultTokenId, checkoutSessionId, amount, currency, t) ==
  IF vaultTokenId \notin DOMAIN tokens
  THEN [valid |-> FALSE, error |-> TokenError("invalid_token")]
  ELSE LET token == tokens[vaultTokenId] IN
    IF token.used
    THEN [valid |-> FALSE, error |-> TokenError("token_already_used")]
    ELSE IF t > token.allowance.expires_at
    THEN [valid |-> FALSE, error |-> TokenError("token_expired")]
    ELSE IF token.allowance.checkout_session_id # checkoutSessionId
    THEN [valid |-> FALSE, error |-> TokenError("invalid_session")]
    ELSE IF currency # token.allowance.currency
    THEN [valid |-> FALSE, error |-> TokenError("currency_mismatch")]
    ELSE [valid |-> TRUE, error |-> TokenError("none")]

\* a validation without the expiry check
validateAllowance_NoExpiryCheck(tokens, vaultTokenId, checkoutSessionId, amount, currency, t) ==
  IF vaultTokenId \notin DOMAIN tokens
  THEN [valid |-> FALSE, error |-> TokenError("invalid_token")]
  ELSE LET token == tokens[vaultTokenId] IN
    IF token.used
    THEN [valid |-> FALSE, error |-> TokenError("token_already_used")]
    ELSE IF token.allowance.checkout_session_id # checkoutSessionId
    THEN [valid |-> FALSE, error |-> TokenError("invalid_session")]
    ELSE IF amount > token.allowance.max_amount
    THEN [valid |-> FALSE, error |-> TokenError("amount_exceeds_allowance")]
    ELSE IF currency # token.allowance.currency
    THEN [valid |-> FALSE, error |-> TokenError("currency_mismatch")]
    ELSE [valid |-> TRUE, error |-> TokenError("none")]

\* a validation that looks at the expiry before the used flag
validateAllowance_ExpiryBeforeUsed(tokens, vaultTokenId, checkoutSessionId, amount, currency, t) ==
  IF vaultTokenId \notin DOMAIN tokens
  THEN [valid |-> FALSE, error |-> TokenError("invalid_token")]
  ELSE LET token == tokens[vaultTokenId] IN
    IF t > token.allowance.expires_at
    THEN [valid |-> FALSE, error |-> TokenError("token_expired")]
    ELSE IF token.used
    THEN [valid |-> FALSE, error |-> TokenError("token_already_used")]
    ELSE IF token.allowance.checkout_session_id # checkoutSessionId
    THEN [valid |-> FALSE, error |-> TokenError("invalid_session")]
    ELSE IF amount > token.allowance.max_amount
    THEN [valid |-> FALSE, error |-> TokenError("amount_exceeds_allowance")]
    ELSE IF currency # token.allowance.currency
    THEN [valid |-> FALSE, error |-> TokenError("currency_mismatch")]
    ELSE [valid |-> TRUE, error |-> TokenError("none")]

\* validateAllowance over the token table read by getToken; t is `new Date()`
validateAllowance(tokens, vaultTokenId, checkoutSessionId, amount, currency, t) ==
  IF vaultTokenId \notin DOMAIN tokens
  THEN [valid |-> FALSE, error |-> TokenError("invalid_token")]
  ELSE LET token == tokens[vaultTokenId] IN
    IF token.used
    THEN [valid |-> FALSE, error |-> TokenError("token_already_used")]
    ELSE IF t > token.allowance.expires_at
    THEN [valid |-> FALSE, error |-> TokenError("token_expired")]
    ELSE IF token.allowance.checkout_session_id # checkoutSessionId
    THEN [valid |-> FALSE, error |-> TokenError("invalid_session")]
    ELSE IF amount > token.allowance.max_amount
    THEN [valid |-> FALSE, error |-> TokenError("amount_exceeds_allowance")]
    ELSE IF currency # token.allowance.currency
    THEN [valid |-> FALSE, error |-> TokenError("currency_mismatch")]
    ELSE [valid |-> TRUE, error |-> TokenError("none")]

\* consumeToken: read the file, mark the token, write the file
consumeToken(f, vaultTokenId, t) ==
  IF vaultTokenId \in DOMAIN f.delegated_tokens
  THEN [f EXCEPT !.delegated_tokens[vaultTokenId].used = TRUE,
                 !.delegated_tokens[vaultTokenId].used_at = Some(t)]
  ELSE f

\* 24 * 60 * 60 * 1000 milliseconds, in ticks of the model's clock
TokenRetention == 1

\* a cleanup that deletes every token that has expired
cleanupExpiredTokens_AllExpired(f, t) ==
  LET kept == {id \in DOMAIN f.delegated_tokens :
                 ~(t > f.delegated_tokens[id].allowance.expires_at)}
  IN [f EXCEPT !.delegated_tokens = [id \in kept |-> f.delegated_tokens[id]]]

\* cleanupExpiredTokens: read the file, delete the tokens that expired more
\* than 24 hours ago, write the file
cleanupExpiredTokens(f, t) ==
  LET kept == {id \in DOMAIN f.delegated_tokens :
                 ~(t - f.delegated_tokens[id].allowance.expires_at > TokenRetention)}
  IN [f EXCEPT !.delegated_tokens = [id \in kept |-> f.delegated_tokens[id]]]

(* ---------------- webhook sender ---------------- *)

\* this.maxRetries and this.baseDelay (milliseconds)
maxRetries == 3
baseDelay == 1000

RECURSIVE Pow2(_)
Pow2(n) == IF n = 0 THEN 1 ELSE 2 * Pow2(n - 1)

\* this.baseDelay * Math.pow(2, attempt - 1)
retryDelay(attempt) == baseDelay * Pow2(attempt - 1)

\* a retry test that lets the last attempt retry as well
shouldRetry_Inclusive(attempt) == attempt <= maxRetries

\* attempt < this.maxRetries
shouldRetry(attempt) == attempt < maxRetries

\* the call sendWebhook(payload): with no URL configured it returns false at
\* once, otherwise it is awaiting the fetch of attempt 1. outcomes are the
\* results of the attempts made so far, delays the waits between them,
\* returned the value the promise resolved to, if it has
sendWebhook(url, payload) ==
  [payload |-> payload, attempt |-> IF url THEN 1 ELSE 0,
   pc |-> IF url THEN "fetch" ELSE "returned",
   outcomes |-> <<>>, delays |-> <<>>,
   returned |-> IF url THEN None ELSE Some(FALSE)]

\* a sender that hands every notification over twice
sendOrderCreated_Twice(hooks, url, orderId, checkoutSessionId) ==
  LET payload == [type |-> "order_created", orderId |-> orderId,
                  checkout_session_id |-> checkoutSessionId, status |-> "created"]
  IN hooks \o <<sendWebhook(url, payload), sendWebhook(url, payload)>>

\* sendOrderCreated: build the order_created payload and call sendWebhook
sendOrderCreated(hooks, url, orderId, checkoutSessionId) ==
  LET payload == [type |-> "order_created", orderId |-> orderId,
                  checkout_session_id |-> checkoutSessionId, status |-> "created"]
  IN Append(hooks, sendWebhook(url, payload))

\* the fetch of a delivery resolved with response.ok
WebhookDelivered(i) ==
  /\ webhooks[i].pc = "fetch"
  /\ webhooks' = [webhooks EXCEPT ![i].pc = "returned",
                                  ![i].outcomes = Append(@, "ok"),
                                  ![i].returned = Some(TRUE)]
  /\ UNCHANGED <<file, idempotencyStore, reqs, now, uuid, probe, webhookUrl>>

\* the fetch threw or resolved with a response that is not ok: the catch
\* block starts the backoff timer or gives up
WebhookFailed(i) ==
  /\ webhooks[i].pc = "fetch"
  /\ webhooks' =
       IF shouldRetry(webhooks[i].attempt)
       THEN [webhooks EXCEPT ![i].pc = "backoff",
                             ![i].outcomes = Append(@, "failed"),
                             ![i].delays = Append(@, retryDelay(webhooks[i].attempt))]
       ELSE [webhooks EXCEPT ![i].pc = "returned",
                             ![i].outcomes = Append(@, "failed"),
                             ![i].returned = Some(FALSE)]
  /\ UNCHANGED <<file, idempotencyStore, reqs, now, uuid, probe, webhookUrl>>

\* the backoff timer fired: sendWebhook(payload, attempt + 1)
WebhookRetry(i) ==
  /\ webhooks[i].pc = "backoff"
  /\ webhooks' = [webhooks EXCEPT ![i].pc = "fetch", ![i].attempt = @ + 1]
  /\ UNCHANGED <<file, idempotencyStore, reqs, now, uuid, probe, webhookUrl>>

(* ---------------- idempotency middleware ---------------- *)

\* JSON.stringify(body): the members in the order the client wrote them
JSONstringify(body) ==
  [i \in 1..Len(body.members) |-> <<body.members[i], body[body.members[i]]>>]

\* a hash that does not depend on the body
hashRequestBody_IgnoresBody(body) == <<"sha256", <<>>>>

\* hashRequestBody: SHA-256 of the serialisation, taken to be collision-free
hashRequestBody(body) == <<"sha256", JSONstringify(body)>>

\* the cached-key branch of handleIdempotency: the reply it sends, if any
MiddlewareReply(store, key, body) ==
  IF ~IsSet(key) THEN None
  ELSE IF key[1] \in DOMAIN store
  THEN LET cached == store[key[1]] IN
       IF cached.bodyHash # hashRequestBody(body)
       THEN Some([mw |-> "conflict", status |-> 409,
                  body |-> [type |-> "invalid_request", code |-> "idempotency_conflict"]])
       ELSE Some([mw |-> "replay", status |-> cached.status, body |-> cached.response])
  ELSE None

\* an intercepted res.json that caches successful responses only
recordResponse_OnlySuccess(store, key, body, status, response) ==
  IF IsSet(key) /\ status < 400
  THEN (key[1] :> [status |-> status, response |-> response,
                   bodyHash |-> hashRequestBody(body)]) @@ store
  ELSE store

\* the intercepted res.json: cache the response under the request's key
recordResponse(store, key, body, status, response) ==
  IF IsSet(key) /\ status < 500
  THEN (key[1] :> [status |-> status, response |-> response,
                   bodyHash |-> hashRequestBody(body)]) @@ store
  ELSE store

(* ---------------- requests ---------------- *)

EmptyFile == [checkout_sessions |-> <<>>, orders |-> <<>>, delegated_tokens |-> <<>>]

NoArgs == [buyer |-> None, items |-> None, fulfillment_address |-> None,
           fulfillment_option_id |-> None]

NoCharge == [made |-> FALSE, amount |-> 0, currency |-> "none",
             source |-> StripeTokenId(0), delegated |-> FALSE]

NoResp == [status |-> 0, body |-> [type |-> "none", code |-> "none"]]

EmptyBody == [members |-> <<>>, buyer |-> None, items |-> None,
              fulfillment_address |-> None, fulfillment_option_id |-> None,
              payment_data |-> None, amount |-> None, allowance |-> None,
              rtg_cart_id |-> None]

\* sid is the :id of the path (0 when the path has none); mw and peers are history: who answered the request (the middleware's cache
\* or the handler) and which requests were in flight when it arrived
IdleReq == [pc |-> "idle", op |-> "none", sid |-> 0, sessionId |-> 0, key |-> None,
            mw |-> "handler", peers |-> {}, body |-> EmptyBody, data |-> EmptyFile, args |-> NoArgs,
            expiresAt |-> 0, charge |-> NoCharge, resp |-> NoResp,
            idempotencyKeyHeader |-> None]

Error(type, code) == [type |-> type, code |-> code]

\* the middleware of agenticCommerceMiddleware(), in the order it runs
MiddlewareStack ==
  <<"addCorrelationHeaders", "validateHeaders", "verifySignature",
    "handleIdempotency", "logRequest">>

\* req.idempotencyKey as the middleware of a name finds it: handleIdempotency
\* assigns it from the request header, nothing before it does
idempotencyKeySeenBy(name, key) ==
  IF \E i, j \in 1..Len(MiddlewareStack) :
       /\ MiddlewareStack[i] = "handleIdempotency" /\ MiddlewareStack[j] = name
       /\ i < j
  THEN key ELSE None

\* the Idempotency-Key response header addCorrelationHeaders sets
addCorrelationHeaders(key) == idempotencyKeySeenBy("addCorrelationHeaders", key)

InFlight(r) == reqs[r].pc \notin {"idle", "done"}

\* an arriving request
Accept(op, sid, key, body) ==
  [IdleReq EXCEPT !.op = op, !.sid = sid, !.key = key, !.body = body,
                  !.peers = {q \in DOMAIN reqs : InFlight(q)},
                  !.idempotencyKeyHeader = addCorrelationHeaders(key)]

\* res.status(status).json(response) ends the request
Done(rq, status, response) ==
  [rq EXCEPT !.pc = "done", !.resp = [status |-> status, body |-> response],
             !.data = EmptyFile, !.args = NoArgs]

\* the middleware answered from its store and the handler never ran
Answered(rq, reply) == Done([rq EXCEPT !.mw = reply.mw], reply.status, reply.body)

\* requests take the slots in arrival order
NextSlot(r) ==
  /\ reqs[r].pc = "idle"
  /\ \A q \in 1..(r - 1) : reqs[q].pc # "idle"

\* a handler between two file writes of one synchronous segment
Running == \E r \in Reqs : reqs[r].pc = "complete_store"


(* ---------------- client inputs ---------------- *)

KeyInputs == {None, Some("k1")}
\* the :id of a request is a session id the server has generated
SessionIds == 1..MaxSessions
KnownIds == 1..uuid.session

GoodItems == <<[id |-> "p1", quantity |-> 1]>>

CreateBodies ==
  { [EmptyBody EXCEPT !.members = <<"items">>, !.items = Some(GoodItems)],
    [EmptyBody EXCEPT !.members = <<"items", "fulfillment_address">>,
                      !.items = Some(GoodItems), !.fulfillment_address = Some("a1")],
    [EmptyBody EXCEPT !.members = <<"items">>, !.items = Some(<<>>)] }

UpdateBodies ==
  { [EmptyBody EXCEPT !.members = <<"fulfillment_address">>,
                      !.fulfillment_address = Some("a1")],
    [EmptyBody EXCEPT !.members = <<"fulfillment_option_id">>,
                      !.fulfillment_option_id = Some("shipping_standard")] }

\* further bodies: an item the catalog does not know, an option id that is
\* not offered, an empty items list, a buyer
MixedItems == <<[id |-> "p1", quantity |-> 1], [id |-> "px", quantity |-> 1]>>

MoreCreateBodies ==
  CreateBodies \cup
  { [EmptyBody EXCEPT !.members = <<"items">>, !.items = Some(MixedItems)],
    [EmptyBody EXCEPT !.members = <<"buyer", "items">>,
                      !.buyer = Some("b1"), !.items = Some(GoodItems)] }

MoreUpdateBodies ==
  UpdateBodies \cup
  { [EmptyBody EXCEPT !.members = <<"buyer">>, !.buyer = Some("b2")],
    [EmptyBody EXCEPT !.members = <<"fulfillment_option_id">>,
                      !.fulfillment_option_id = Some("shipping_none")],
    [EmptyBody EXCEPT !.members = <<"items">>, !.items = Some(MixedItems)],
    [EmptyBody EXCEPT !.members = <<"items">>, !.items = Some(<<>>)] }

\* a negative quantity
NegativeItems == <<[id |-> "p1", quantity |-> -1]>>

AllCreateBodies ==
  MoreCreateBodies \cup
  { [EmptyBody EXCEPT !.members = <<"items">>, !.items = Some(NegativeItems)],
    [EmptyBody EXCEPT !.members = <<"rtg_cart_id", "buyer">>,
                      !.rtg_cart_id = Some("cart1"), !.buyer = Some("b1")] }

\* the create body with an address, its two members written in the other order
KeyedCreateBodies ==
  CreateBodies \cup
  { [EmptyBody EXCEPT !.members = <<"fulfillment_address", "items">>,
                      !.items = Some(GoodItems), !.fulfillment_address = Some("a1")] }

PaymentBody(token) ==
  [EmptyBody EXCEPT !.members = <<"payment_data">>,
                    !.payment_data = Some([token |-> token, provider |-> "stripe"])]

CompleteBodies == {PaymentBody(VaultTokenId(1)), PaymentBody(StripeTokenId(0))}

\* a second delegated token, and a body that names an amount of its own
MoreCompleteBodies ==
  CompleteBodies \cup
  { PaymentBody(VaultTokenId(2)),
    [PaymentBody(StripeTokenId(0)) EXCEPT !.members = <<"payment_data", "amount">>,
                                          !.amount = Some(1)] }

Allowance(sid, maxAmount, expiresAt) ==
  [reason |-> "one_time", max_amount |-> maxAmount, currency |-> Currency,
   checkout_session_id |-> sid, merchant_id |-> "merchant_rtg",
   expires_at |-> expiresAt]

(* ---------------- initial data file ---------------- *)

\* a session as create and two updates leave it: one item, address, option
ReadySession ==
  [buildCheckoutSession(1, None, GoodItems, Some("a1"), Some("shipping_standard"), 0)
     EXCEPT !.created_at = Some(0), !.expires_at = Some(CHECKOUT_SESSION_EXPIRY),
            !.updated_at = Some(0)]

\* a second session the same requests left
SecondReadySession ==
  [buildCheckoutSession(2, None, GoodItems, Some("a1"), Some("shipping_standard"), 0)
     EXCEPT !.created_at = Some(0), !.expires_at = Some(CHECKOUT_SESSION_EXPIRY),
            !.updated_at = Some(0)]

\* the token a delegate_payment call for that session stores; it expires
\* when the session does
ReadyToken ==
  NewToken(VaultTokenId(1), StripeTokenId(1),
           Allowance(1, TotalAmount(ReadySession), CHECKOUT_SESSION_EXPIRY), 0)

IssueBodies ==
  { [EmptyBody EXCEPT !.members = <<"allowance">>,
                      !.allowance = Some(Allowance(1, TotalAmount(ReadySession), MaxTime))] }

\* further allowances: a max_amount below the session's total, an expires_at
\* that has passed, a binding to another session
MoreIssueBodies ==
  IssueBodies \cup
  { [EmptyBody EXCEPT !.members = <<"allowance">>, !.allowance = Some(a)] :
      a \in {Allowance(1, TotalAmount(ReadySession) - 1, MaxTime),
             Allowance(1, TotalAmount(ReadySession), 0),
             Allowance(2, TotalAmount(ReadySession) - 1, 0)} }

\* `probe` holds one direct call of a function of the service: its arguments
\* and, once the call has been made, its result; the server itself makes none
NoProbe == [fn |-> "none"]

\* orders.json and the clock when the server starts: the file holds a payable
\* session created one tick ago and a token issued for it, as a create, two
\* updates and a delegate_payment call of an earlier run left them
Init ==
  /\ file = [checkout_sessions |-> (1 :> ReadySession), orders |-> <<>>,
             delegated_tokens |-> (VaultTokenId(1) :> ReadyToken)]
  /\ uuid = [session |-> 1, order |-> 0, token |-> 1]
  /\ idempotencyStore = <<>>
  /\ reqs = [r \in Reqs |-> IdleReq]
  /\ now = CHECKOUT_SESSION_EXPIRY
  /\ probe = NoProbe
  /\ webhooks = <<>>
  /\ webhookUrl = TRUE

(* ---------------- POST /checkout_sessions ---------------- *)

\* middleware, validation, session id and expiry; then awaits the builder
CreateBegin(r, key, body) ==
  /\ NextSlot(r) /\ ~Running
  /\ LET reply == MiddlewareReply(idempotencyStore, key, body)
         rq == Accept("create", 0, key, body)
     IN IF IsSet(reply)
        THEN /\ reqs' = [reqs EXCEPT ![r] = Answered(rq, reply[1])]
             /\ UNCHANGED <<file, idempotencyStore, uuid>>
        ELSE IF ~IsSet(body.items) \/ Len(body.items[1]) = 0
        THEN LET e == Error("invalid_request", "missing_required_field") IN
             /\ reqs' = [reqs EXCEPT ![r] = Done(rq, 400, e)]
             /\ idempotencyStore' = recordResponse(idempotencyStore, key, body, 400, e)
             /\ UNCHANGED <<file, uuid>>
        ELSE /\ uuid.session < MaxSessions
             /\ uuid' = [uuid EXCEPT !.session = @ + 1]
             /\ reqs' = [reqs EXCEPT ![r] =
                          [rq EXCEPT !.pc = "create_build", !.sessionId = uuid.session + 1,
                                     !.expiresAt = now + CHECKOUT_SESSION_EXPIRY]]
             /\ UNCHANGED <<file, idempotencyStore>>
  /\ UNCHANGED now

\* the builder returned: stamp, store into a fresh read of the file, respond
CreateFinish(r) ==
  /\ reqs[r].pc = "create_build" /\ ~Running
  /\ LET rq == reqs[r]
         session == [buildCheckoutSession(rq.sessionId, rq.body.buyer, rq.body.items[1],
                                          rq.body.fulfillment_address, None, now)
                       EXCEPT !.created_at = Some(now),
                              !.expires_at = Some(rq.expiresAt)]
     IN /\ file' = [file EXCEPT !.checkout_sessions = (rq.sessionId :> session) @@ @]
        /\ reqs' = [reqs EXCEPT ![r] = Done(rq, 201, session)]
        /\ idempotencyStore' =
             recordResponse(idempotencyStore, rq.key, rq.body, 201, session)
  /\ UNCHANGED <<now, uuid>>

\* the builder threw (catalog initialisation failed): the catch block
CreateFail(r) ==
  /\ reqs[r].pc = "create_build" /\ ~Running
  /\ LET e == Error("processing_error", "internal_error") IN
     /\ reqs' = [reqs EXCEPT ![r] = Done(reqs[r], 500, e)]
     /\ idempotencyStore' =
          recordResponse(idempotencyStore, reqs[r].key, reqs[r].body, 500, e)
  /\ UNCHANGED <<file, now, uuid>>

(* ---------------- POST /checkout_sessions/:id ---------------- *)

UpdateBegin(r, sid, key, body) ==
  /\ NextSlot(r) /\ ~Running
  /\ LET reply == MiddlewareReply(idempotencyStore, key, body)
         rq == Accept("update", sid, key, body)
         data == file
     IN IF IsSet(reply)
        THEN /\ reqs' = [reqs EXCEPT ![r] = Answered(rq, reply[1])]
             /\ UNCHANGED <<file, idempotencyStore>>
        ELSE IF sid \notin DOMAIN data.checkout_sessions
        THEN LET e == Error("invalid_request", "session_not_found") IN
             /\ reqs' = [reqs EXCEPT ![r] = Done(rq, 404, e)]
             /\ idempotencyStore' = recordResponse(idempotencyStore, key, body, 404, e)
             /\ UNCHANGED file
        ELSE LET existingSession == data.checkout_sessions[sid] IN
          IF now > existingSession.expires_at[1]
          THEN LET e == Error("invalid_request", "session_expired") IN
               /\ file' = [data EXCEPT !.checkout_sessions[sid].status = "canceled"]
               /\ reqs' = [reqs EXCEPT ![r] = Done(rq, 400, e)]
               /\ idempotencyStore' = recordResponse(idempotencyStore, key, body, 400, e)
          ELSE IF existingSession.status \in {"completed", "canceled"}
          THEN LET e == Error("invalid_request", "session_already_finalized") IN
               /\ reqs' = [reqs EXCEPT ![r] = Done(rq, 400, e)]
               /\ idempotencyStore' = recordResponse(idempotencyStore, key, body, 400, e)
               /\ UNCHANGED file
          ELSE /\ reqs' = [reqs EXCEPT ![r] =
                  [rq EXCEPT !.pc = "update_build", !.data = data,
                     !.args = [buyer |-> OrElse(body.buyer, existingSession.buyer),
                               items |-> OrElse(body.items,
                                   Some([i \in 1..Len(existingSession.line_items) |->
                                           existingSession.line_items[i].item])),
                               fulfillment_address |->
                                   OrElse(body.fulfillment_address,
                                          existingSession.fulfillment_address),
                               fulfillment_option_id |->
                                   OrElse(body.fulfillment_option_id,
                                          existingSession.fulfillment_option_id)]]]
               /\ UNCHANGED <<file, idempotencyStore>>
  /\ UNCHANGED <<now, uuid>>

\* the builder returned: the rebuilt session goes into the handler's `data`,
\* and the whole of `data` is written back
UpdateFinish(r) ==
  /\ reqs[r].pc = "update_build" /\ ~Running
  /\ LET rq == reqs[r]
         existingSession == rq.data.checkout_sessions[rq.sid]
         session == [buildCheckoutSession(rq.sid, rq.args.buyer, rq.args.items[1],
                                          rq.args.fulfillment_address,
                                          rq.args.fulfillment_option_id, now)
                       EXCEPT !.created_at = existingSession.created_at,
                              !.expires_at = existingSession.expires_at,
                              !.updated_at = Some(now)]
     IN /\ file' = [rq.data EXCEPT !.checkout_sessions[rq.sid] = session]
        /\ reqs' = [reqs EXCEPT ![r] = Done(rq, 200, session)]
        /\ idempotencyStore' =
             recordResponse(idempotencyStore, rq.key, rq.body, 200, session)
  /\ UNCHANGED <<now, uuid>>

\* the builder threw: the catch block
UpdateFail(r) ==
  /\ reqs[r].pc = "update_build" /\ ~Running
  /\ LET e == Error("processing_error", "internal_error") IN
     /\ reqs' = [reqs EXCEPT ![r] = Done(reqs[r], 500, e)]
     /\ idempotencyStore' =
          recordResponse(idempotencyStore, reqs[r].key, reqs[r].body, 500, e)
  /\ UNCHANGED <<file, now, uuid>>


(* ---------------- POST /checkout_sessions/:id/complete ---------------- *)

\* a status check that lets every session through that is not finalized
isReadyForPayment_AnyLive(session) ==
  session.status \in {"not_ready_for_payment", "ready_for_payment"}

\* session.status === "ready_for_payment"
isReadyForPayment(session) == session.status = "ready_for_payment"

\* payment_data.token.startsWith("vt_")
isDelegatedToken(token) == token.prefix = "vt_"

\* middleware, validation, read, status check, token validation; then the
\* handler awaits stripe.charges.create
CompleteBegin(r, sid, key, body) ==
  /\ NextSlot(r) /\ ~Running
  /\ LET reply == MiddlewareReply(idempotencyStore, key, body)
         rq == Accept("complete", sid, key, body)
         data == file
         Reject(status, e) ==
           /\ reqs' = [reqs EXCEPT ![r] = Done(rq, status, e)]
           /\ idempotencyStore' = recordResponse(idempotencyStore, key, body, status, e)
     IN IF IsSet(reply)
        THEN /\ reqs' = [reqs EXCEPT ![r] = Answered(rq, reply[1])]
             /\ UNCHANGED idempotencyStore
        ELSE IF ~IsSet(body.payment_data)
        THEN Reject(400, Error("invalid_request", "missing_payment_data"))
        ELSE IF sid \notin DOMAIN data.checkout_sessions
        THEN Reject(404, Error("invalid_request", "session_not_found"))
        ELSE LET session == data.checkout_sessions[sid]
                 totalAmount == TotalAmount(session)
                 token == body.payment_data[1].token
                 validation == validateAllowance(file.delegated_tokens, token, sid,
                                                 totalAmount, session.currency, now)
             IN IF ~isReadyForPayment(session)
                THEN Reject(400, Error("invalid_request", "session_not_ready"))
                ELSE IF isDelegatedToken(token) /\ ~validation.valid
                THEN Reject(400, validation.error)
                ELSE /\ reqs' = [reqs EXCEPT ![r] =
                           [rq EXCEPT !.pc = "await_charge", !.data = data,
                              !.charge = [made |-> FALSE, amount |-> totalAmount,
                                          currency |-> session.currency,
                                          delegated |-> isDelegatedToken(token),
                                          source |-> IF isDelegatedToken(token)
                                                     THEN file.delegated_tokens[token].stripe_token_id
                                                     ELSE token]]]
                     /\ UNCHANGED idempotencyStore
  /\ UNCHANGED <<file, now, uuid>>

\* Stripe made the charge; the handler resumes and marks the delegated token
\* used through the token manager's own read and write of the file
CompleteConsume(r) ==
  /\ reqs[r].pc = "await_charge" /\ ~Running
  /\ reqs' = [reqs EXCEPT ![r].pc = "complete_store", ![r].charge.made = TRUE]
  /\ file' = IF reqs[r].charge.delegated
             THEN consumeToken(file, reqs[r].body.payment_data[1].token, now)
             ELSE file
  /\ UNCHANGED <<idempotencyStore, now, uuid>>

\* a handler that awaits the delivery of the notification before it responds
CompleteStore_AwaitsWebhook(r) ==
  /\ reqs[r].pc = "complete_store"
  /\ LET rq == reqs[r]
         orderId == uuid.order + 1
         old == rq.data.checkout_sessions[rq.sid]
         order == [id |-> orderId, checkout_session_id |-> rq.sid,
                   status |-> "confirmed",
                   buyer |-> OrElse(rq.body.buyer, old.buyer),
                   totals |-> old.totals, currency |-> old.currency,
                   charge_source |-> rq.charge.source, created_at |-> now]
         session == [old EXCEPT !.status = "completed",
                                !.completed_at = Some(now),
                                !.order = Some([id |-> orderId,
                                                checkout_session_id |-> rq.sid])]
     IN /\ file' = [rq.data EXCEPT !.orders = (orderId :> order) @@ @,
                                   !.checkout_sessions[rq.sid] = session]
        /\ uuid' = [uuid EXCEPT !.order = orderId]
        /\ webhooks' = sendOrderCreated(webhooks, webhookUrl, orderId, rq.sid)
        /\ reqs' = [reqs EXCEPT ![r].pc = "await_webhook"]
        /\ UNCHANGED idempotencyStore
  /\ UNCHANGED now

\* same synchronous segment: the order and the completed session go into the
\* handler's `data`, the whole of `data` is written back, the notification is
\* handed to the webhook sender, the session returned
CompleteStore(r) ==
  /\ reqs[r].pc = "complete_store"
  /\ LET rq == reqs[r]
         orderId == uuid.order + 1
         old == rq.data.checkout_sessions[rq.sid]
         order == [id |-> orderId, checkout_session_id |-> rq.sid,
                   status |-> "confirmed",
                   buyer |-> OrElse(rq.body.buyer, old.buyer),
                   totals |-> old.totals, currency |-> old.currency,
                   charge_source |-> rq.charge.source, created_at |-> now]
         session == [old EXCEPT !.status = "completed",
                                !.completed_at = Some(now),
                                !.order = Some([id |-> orderId,
                                                checkout_session_id |-> rq.sid])]
     IN /\ file' = [rq.data EXCEPT !.orders = (orderId :> order) @@ @,
                                   !.checkout_sessions[rq.sid] = session]
        /\ uuid' = [uuid EXCEPT !.order = orderId]
        /\ webhooks' = sendOrderCreated(webhooks, webhookUrl, orderId, rq.sid)
        /\ reqs' = [reqs EXCEPT ![r] = Done(rq, 201, session)]
        /\ idempotencyStore' =
             recordResponse(idempotencyStore, rq.key, rq.body, 201, session)
  /\ UNCHANGED now

\* writeData threw after the charge and the token write: the catch block
CompleteFail(r) ==
  /\ reqs[r].pc = "complete_store"
  /\ LET e == Error("processing_error", "internal_error") IN
     /\ reqs' = [reqs EXCEPT ![r] = Done(reqs[r], 500, e)]
     /\ idempotencyStore' =
          recordResponse(idempotencyStore, reqs[r].key, reqs[r].body, 500, e)
  /\ UNCHANGED <<file, now, uuid>>

\* a decline path that has marked the delegated token used all the same
CompleteDeclined_ConsumesToken(r) ==
  /\ reqs[r].pc = "await_charge" /\ ~Running
  /\ LET e == Error("processing_error", "payment_declined") IN
     /\ reqs' = [reqs EXCEPT ![r] = Done(reqs[r], 400, e)]
     /\ idempotencyStore' =
          recordResponse(idempotencyStore, reqs[r].key, reqs[r].body, 400, e)
  /\ file' = IF reqs[r].charge.delegated
             THEN consumeToken(file, reqs[r].body.payment_data[1].token, now)
             ELSE file
  /\ UNCHANGED <<now, uuid>>

\* Stripe refused the charge: the inner catch
CompleteDeclined(r) ==
  /\ reqs[r].pc = "await_charge" /\ ~Running
  /\ LET e == Error("processing_error", "payment_declined") IN
     /\ reqs' = [reqs EXCEPT ![r] = Done(reqs[r], 400, e)]
     /\ idempotencyStore' =
          recordResponse(idempotencyStore, reqs[r].key, reqs[r].body, 400, e)
  /\ UNCHANGED <<file, now, uuid>>

(* ---------------- POST /checkout_sessions/:id/cancel ---------------- *)

\* a cancel that stamps and stores an already canceled session again
Cancel_StampsAgain(r, sid, key, body) ==
  /\ NextSlot(r) /\ ~Running
  /\ LET reply == MiddlewareReply(idempotencyStore, key, body)
         rq == Accept("cancel", sid, key, body)
         data == file
         Reply(status, b) ==
           /\ reqs' = [reqs EXCEPT ![r] = Done(rq, status, b)]
           /\ idempotencyStore' = recordResponse(idempotencyStore, key, body, status, b)
     IN IF IsSet(reply)
        THEN /\ reqs' = [reqs EXCEPT ![r] = Answered(rq, reply[1])]
             /\ UNCHANGED <<file, idempotencyStore>>
        ELSE IF sid \notin DOMAIN data.checkout_sessions
        THEN Reply(404, Error("invalid_request", "session_not_found")) /\ UNCHANGED file
        ELSE LET session == data.checkout_sessions[sid] IN
          IF session.status = "completed"
          THEN Reply(400, Error("invalid_request", "session_already_completed"))
               /\ UNCHANGED file
          ELSE LET canceled == [session EXCEPT !.status = "canceled",
                                               !.canceled_at = Some(now)]
               IN /\ file' = [data EXCEPT !.checkout_sessions[sid] = canceled]
                  /\ Reply(200, canceled)
  /\ UNCHANGED <<now, uuid>>

Cancel(r, sid, key, body) ==
  /\ NextSlot(r) /\ ~Running
  /\ LET reply == MiddlewareReply(idempotencyStore, key, body)
         rq == Accept("cancel", sid, key, body)
         data == file
         Reply(status, b) ==
           /\ reqs' = [reqs EXCEPT ![r] = Done(rq, status, b)]
           /\ idempotencyStore' = recordResponse(idempotencyStore, key, body, status, b)
     IN IF IsSet(reply)
        THEN /\ reqs' = [reqs EXCEPT ![r] = Answered(rq, reply[1])]
             /\ UNCHANGED <<file, idempotencyStore>>
        ELSE IF sid \notin DOMAIN data.checkout_sessions
        THEN Reply(404, Error("invalid_request", "session_not_found")) /\ UNCHANGED file
        ELSE LET session == data.checkout_sessions[sid] IN
          IF session.status = "completed"
          THEN Reply(400, Error("invalid_request", "session_already_completed"))
               /\ UNCHANGED file
          ELSE IF session.status = "canceled"
          THEN Reply(200, session) /\ UNCHANGED file
          ELSE LET canceled == [session EXCEPT !.status = "canceled",
                                               !.canceled_at = Some(now)]
               IN /\ file' = [data EXCEPT !.checkout_sessions[sid] = canceled]
                  /\ Reply(200, canceled)
  /\ UNCHANGED <<now, uuid>>

(* ---------------- GET /checkout_sessions/:id ---------------- *)

\* the stored session as it is, whatever its expires_at
Retrieve(r, sid, key, body) ==
  /\ NextSlot(r) /\ ~Running
  /\ LET reply == MiddlewareReply(idempotencyStore, key, body)
         rq == Accept("retrieve", sid, key, body)
         data == file
     IN IF IsSet(reply)
        THEN /\ reqs' = [reqs EXCEPT ![r] = Answered(rq, reply[1])]
             /\ UNCHANGED idempotencyStore
        ELSE IF sid \notin DOMAIN data.checkout_sessions
        THEN LET e == Error("invalid_request", "session_not_found") IN
             /\ reqs' = [reqs EXCEPT ![r] = Done(rq, 404, e)]
             /\ idempotencyStore' = recordResponse(idempotencyStore, key, body, 404, e)
        ELSE LET session == data.checkout_sessions[sid] IN
             /\ reqs' = [reqs EXCEPT ![r] = Done(rq, 200, session)]
             /\ idempotencyStore' = recordResponse(idempotencyStore, key, body, 200, session)
  /\ UNCHANGED <<file, now, uuid>>

(* ---------------- POST /agentic_commerce/delegate_payment ---------------- *)

\* the allowance checks of the route's validation block
AllowanceValid(body) ==
  /\ IsSet(body.allowance)
  /\ body.allowance[1].reason = "one_time"
  /\ body.allowance[1].max_amount # 0
  /\ body.allowance[1].currency \in {"usd", "eur"}

IssuesInFlight == Cardinality({q \in Reqs : reqs[q].pc = "await_token"})

\* middleware and validation; then the handler awaits stripe.tokens.create
IssueBegin(r, key, body) ==
  /\ NextSlot(r) /\ ~Running
  /\ LET reply == MiddlewareReply(idempotencyStore, key, body)
         rq == Accept("issue", 0, key, body)
     IN IF IsSet(reply)
        THEN /\ reqs' = [reqs EXCEPT ![r] = Answered(rq, reply[1])]
             /\ UNCHANGED idempotencyStore
        ELSE IF ~AllowanceValid(body)
        THEN LET e == Error("invalid_request", "missing_required_fields") IN
             /\ reqs' = [reqs EXCEPT ![r] = Done(rq, 400, e)]
             /\ idempotencyStore' = recordResponse(idempotencyStore, key, body, 400, e)
        ELSE /\ uuid.token + IssuesInFlight < MaxTokens
             /\ reqs' = [reqs EXCEPT ![r] = [rq EXCEPT !.pc = "await_token"]]
             /\ UNCHANGED idempotencyStore
  /\ UNCHANGED <<file, now, uuid>>

\* Stripe returned a token: storeToken reads the file, adds the vault token
\* and writes the file
IssueFinish(r) ==
  /\ reqs[r].pc = "await_token" /\ ~Running
  /\ LET rq == reqs[r]
         n == uuid.token + 1
         token == NewToken(VaultTokenId(n), StripeTokenId(n), rq.body.allowance[1], now)
         result == [id |-> token.id, created |-> now]
     IN /\ file' = [file EXCEPT !.delegated_tokens = (token.id :> token) @@ @]
        /\ uuid' = [uuid EXCEPT !.token = n]
        /\ reqs' = [reqs EXCEPT ![r] = Done(rq, 201, result)]
        /\ idempotencyStore' =
             recordResponse(idempotencyStore, rq.key, rq.body, 201, result)
  /\ UNCHANGED now

\* Stripe refused to tokenise the card: the inner catch
IssueDeclined(r) ==
  /\ reqs[r].pc = "await_token" /\ ~Running
  /\ LET e == Error("invalid_request", "invalid_card") IN
     /\ reqs' = [reqs EXCEPT ![r] = Done(reqs[r], 400, e)]
     /\ idempotencyStore' =
          recordResponse(idempotencyStore, reqs[r].key, reqs[r].body, 400, e)
  /\ UNCHANGED <<file, now, uuid>>

(* ---------------- maintenance ---------------- *)

\* the maintenance task runs cleanupExpiredTokens, one synchronous call
Cleanup ==
  /\ ~Running
  /\ file' = cleanupExpiredTokens(file, now)
  /\ UNCHANGED <<idempotencyStore, reqs, now, uuid>>

(* ---------------- time ---------------- *)

Tick ==
  /\ now < MaxTime /\ ~Running
  /\ now' = now + 1
  /\ UNCHANGED <<file, idempotencyStore, reqs, uuid>>

(* ---------------- specification ---------------- *)

Next ==
  \/ \E r \in Reqs, key \in KeyInputs, body \in KeyedCreateBodies :
       CreateBegin(r, key, body) /\ UNCHANGED <<probe, webhooks, webhookUrl>>
  \/ \E r \in Reqs : CreateFinish(r) /\ UNCHANGED <<probe, webhooks, webhookUrl>>
  \/ \E r \in Reqs : CreateFail(r) /\ UNCHANGED <<probe, webhooks, webhookUrl>>
  \/ \E r \in Reqs, sid \in KnownIds, key \in KeyInputs, body \in UpdateBodies :
       UpdateBegin(r, sid, key, body) /\ UNCHANGED <<probe, webhooks, webhookUrl>>
  \/ \E r \in Reqs : UpdateFinish(r) /\ UNCHANGED <<probe, webhooks, webhookUrl>>
  \/ \E r \in Reqs : UpdateFail(r) /\ UNCHANGED <<probe, webhooks, webhookUrl>>
  \/ \E r \in Reqs, sid \in KnownIds, key \in KeyInputs, body \in CompleteBodies :
       CompleteBegin(r, sid, key, body) /\ UNCHANGED <<probe, webhooks, webhookUrl>>
  \/ \E r \in Reqs : CompleteConsume(r) /\ UNCHANGED <<probe, webhooks, webhookUrl>>
  \/ \E r \in Reqs : CompleteStore(r) /\ UNCHANGED <<probe, webhookUrl>>
  \/ \E r \in Reqs : CompleteFail(r) /\ UNCHANGED <<probe, webhooks, webhookUrl>>
  \/ \E r \in Reqs : CompleteDeclined(r) /\ UNCHANGED <<probe, webhooks, webhookUrl>>
  \/ \E r \in Reqs, sid \in KnownIds, key \in KeyInputs : Cancel(r, sid, key, EmptyBody) /\ UNCHANGED <<probe, webhooks, webhookUrl>>
  \/ \E r \in Reqs, sid \in KnownIds, key \in KeyInputs :
       Retrieve(r, sid, key, EmptyBody) /\ UNCHANGED <<probe, webhooks, webhookUrl>>
  \/ \E r \in Reqs, key \in KeyInputs, body \in IssueBodies : IssueBegin(r, key, body) /\ UNCHANGED <<probe, webhooks, webhookUrl>>
  \/ \E r \in Reqs : IssueFinish(r) /\ UNCHANGED <<probe, webhooks, webhookUrl>>
  \/ \E r \in Reqs : IssueDeclined(r) /\ UNCHANGED <<probe, webhooks, webhookUrl>>
  \/ Tick /\ UNCHANGED <<probe, webhooks, webhookUrl>>

Spec == Init /\ [][Next]_vars

\* a client that sends its next request only after the previous response
Quiet == \A q \in Reqs : ~InFlight(q)

SeqNext ==
  \/ \E r \in Reqs, key \in KeyInputs, body \in CreateBodies :
       Quiet /\ CreateBegin(r, key, body) /\ UNCHANGED <<probe, webhooks, webhookUrl>>
  \/ \E r \in Reqs : CreateFinish(r) /\ UNCHANGED <<probe, webhooks, webhookUrl>>
  \/ \E r \in Reqs : CreateFail(r) /\ UNCHANGED <<probe, webhooks, webhookUrl>>
  \/ \E r \in Reqs, sid \in KnownIds, key \in KeyInputs, body \in UpdateBodies :
       Quiet /\ UpdateBegin(r, sid, key, body) /\ UNCHANGED <<probe, webhooks, webhookUrl>>
  \/ \E r \in Reqs : UpdateFinish(r) /\ UNCHANGED <<probe, webhooks, webhookUrl>>
  \/ \E r \in Reqs : UpdateFail(r) /\ UNCHANGED <<probe, webhooks, webhookUrl>>
  \/ \E r \in Reqs, sid \in KnownIds, key \in KeyInputs, body \in CompleteBodies :
       Quiet /\ CompleteBegin(r, sid, key, body) /\ UNCHANGED <<probe, webhooks, webhookUrl>>
  \/ \E r \in Reqs : CompleteConsume(r) /\ UNCHANGED <<probe, webhooks, webhookUrl>>
  \/ \E r \in Reqs : CompleteStore(r) /\ UNCHANGED <<probe, webhookUrl>>
  \/ \E r \in Reqs : CompleteFail(r) /\ UNCHANGED <<probe, webhooks, webhookUrl>>
  \/ \E r \in Reqs : CompleteDeclined(r) /\ UNCHANGED <<probe, webhooks, webhookUrl>>
  \/ \E r \in Reqs, sid \in KnownIds, key \in KeyInputs :
       Quiet /\ Cancel(r, sid, key, EmptyBody) /\ UNCHANGED <<probe, webhooks, webhookUrl>>
  \/ \E r \in Reqs, key \in KeyInputs, body \in IssueBodies :
       Quiet /\ IssueBegin(r, key, body) /\ UNCHANGED <<probe, webhooks, webhookUrl>>
  \/ \E r \in Reqs : IssueFinish(r) /\ UNCHANGED <<probe, webhooks, webhookUrl>>
  \/ \E r \in Reqs : IssueDeclined(r) /\ UNCHANGED <<probe, webhooks, webhookUrl>>
  \/ Tick /\ UNCHANGED <<probe, webhooks, webhookUrl>>

SeqSpec == Init /\ [][SeqNext]_vars

\* a client that sends one request at a time and no Idempotency-Key header,
\* so that handleIdempotency calls next() at once; the parameters are the
\* bodies it sends
PlainClient(creates, updates, completes, issues) ==
  \/ \E r \in Reqs, body \in creates :
       Quiet /\ CreateBegin(r, None, body) /\ UNCHANGED <<probe, webhooks, webhookUrl>>
  \/ \E r \in Reqs : CreateFinish(r) /\ UNCHANGED <<probe, webhooks, webhookUrl>>
  \/ \E r \in Reqs : CreateFail(r) /\ UNCHANGED <<probe, webhooks, webhookUrl>>
  \/ \E r \in Reqs, sid \in KnownIds, body \in updates :
       Quiet /\ UpdateBegin(r, sid, None, body) /\ UNCHANGED <<probe, webhooks, webhookUrl>>
  \/ \E r \in Reqs : UpdateFinish(r) /\ UNCHANGED <<probe, webhooks, webhookUrl>>
  \/ \E r \in Reqs : UpdateFail(r) /\ UNCHANGED <<probe, webhooks, webhookUrl>>
  \/ \E r \in Reqs, sid \in KnownIds, body \in completes :
       Quiet /\ CompleteBegin(r, sid, None, body) /\ UNCHANGED <<probe, webhooks, webhookUrl>>
  \/ \E r \in Reqs : CompleteConsume(r) /\ UNCHANGED <<probe, webhooks, webhookUrl>>
  \/ \E r \in Reqs : CompleteStore(r) /\ UNCHANGED <<probe, webhookUrl>>
  \/ \E r \in Reqs : CompleteFail(r) /\ UNCHANGED <<probe, webhooks, webhookUrl>>
  \/ \E r \in Reqs : CompleteDeclined(r) /\ UNCHANGED <<probe, webhooks, webhookUrl>>
  \/ \E r \in Reqs, sid \in KnownIds :
       Quiet /\ Cancel(r, sid, None, EmptyBody) /\ UNCHANGED <<probe, webhooks, webhookUrl>>
  \/ \E r \in Reqs, body \in issues :
       Quiet /\ IssueBegin(r, None, body) /\ UNCHANGED <<probe, webhooks, webhookUrl>>
  \/ \E r \in Reqs : IssueFinish(r) /\ UNCHANGED <<probe, webhooks, webhookUrl>>
  \/ \E r \in Reqs : IssueDeclined(r) /\ UNCHANGED <<probe, webhooks, webhookUrl>>
  \/ Tick /\ UNCHANGED <<probe, webhooks, webhookUrl>>

\* every body, and retrieval
PlainNext ==
  \/ PlainClient(AllCreateBodies, MoreUpdateBodies, MoreCompleteBodies, MoreIssueBodies)
  \/ \E r \in Reqs, sid \in KnownIds :
       Quiet /\ Retrieve(r, sid, None, EmptyBody) /\ UNCHANGED <<probe, webhooks, webhookUrl>>

PlainSpec == Init /\ [][PlainNext]_vars

\* the same client with the further cart bodies only
CartNext == PlainClient(MoreCreateBodies, MoreUpdateBodies, CompleteBodies, IssueBodies)

CartSpec == Init /\ [][CartNext]_vars

\* the same client with the further payment bodies only
PayNext == PlainClient(CreateBodies, UpdateBodies, MoreCompleteBodies, MoreIssueBodies)

PaySpec == Init /\ [][PayNext]_vars

(* ---------------- direct calls of validateAllowance ---------------- *)

ProbeAmounts == {TotalAmount(ReadySession) - 1, TotalAmount(ReadySession)}
ProbeCurrencies == {"usd", "eur"}

\* the token tables getToken may read: no token, or vt_1 in any condition
ProbeTokenTables ==
  {<<>>} \cup
  { (VaultTokenId(1) :>
       [NewToken(VaultTokenId(1), StripeTokenId(1),
                 [Allowance(sid, maxAmount, expiresAt) EXCEPT !.currency = currency], 0)
          EXCEPT !.used = used]) :
      sid \in SessionIds, maxAmount \in ProbeAmounts, expiresAt \in Times,
      currency \in ProbeCurrencies, used \in BOOLEAN }

ProbeArgs ==
  [tokens : ProbeTokenTables, vaultTokenId : {VaultTokenId(1), VaultTokenId(2)},
   checkoutSessionId : SessionIds, amount : ProbeAmounts,
   currency : ProbeCurrencies, t : Times]

\* the arguments of one call, nothing called yet
FnInit ==
  /\ file = EmptyFile
  /\ uuid = [session |-> 0, order |-> 0, token |-> 0]
  /\ idempotencyStore = <<>>
  /\ reqs = [r \in Reqs |-> IdleReq]
  /\ now = 0
  /\ \E a \in ProbeArgs : probe = [fn |-> "args", args |-> a]
  /\ webhooks = <<>>
  /\ webhookUrl = TRUE

CallValidateAllowance ==
  /\ probe.fn = "args"
  /\ probe' = [fn |-> "validateAllowance", args |-> probe.args,
               result |-> validateAllowance(probe.args.tokens, probe.args.vaultTokenId,
                                            probe.args.checkoutSessionId, probe.args.amount,
                                            probe.args.currency, probe.args.t)]
  /\ UNCHANGED <<file, idempotencyStore, reqs, now, uuid, webhooks, webhookUrl>>

FnNext == CallValidateAllowance

FnSpec == FnInit /\ [][FnNext]_vars


\* complete requests with Idempotency-Key, sent one at a time, and the
\* deliveries of the notifications they hand over, which go on while later
\* requests arrive; two payable sessions are stored and OPENAI_WEBHOOK_URL is
\* configured or not when the server starts
HookInit ==
  /\ file = [checkout_sessions |-> (1 :> ReadySession) @@ (2 :> SecondReadySession),
             orders |-> <<>>,
             delegated_tokens |-> (VaultTokenId(1) :> ReadyToken)]
  /\ uuid = [session |-> 2, order |-> 0, token |-> 1]
  /\ idempotencyStore = <<>>
  /\ reqs = [r \in Reqs |-> IdleReq]
  /\ now = CHECKOUT_SESSION_EXPIRY
  /\ probe = NoProbe
  /\ webhooks = <<>>
  /\ webhookUrl \in BOOLEAN

HookNext ==
  \/ \E r \in Reqs, sid \in KnownIds, key \in KeyInputs, body \in CompleteBodies :
       Quiet /\ CompleteBegin(r, sid, key, body) /\ UNCHANGED <<probe, webhooks, webhookUrl>>
  \/ \E r \in Reqs : CompleteConsume(r) /\ UNCHANGED <<probe, webhooks, webhookUrl>>
  \/ \E r \in Reqs : CompleteStore(r) /\ UNCHANGED <<probe, webhookUrl>>
  \/ \E r \in Reqs : CompleteFail(r) /\ UNCHANGED <<probe, webhooks, webhookUrl>>
  \/ \E r \in Reqs : CompleteDeclined(r) /\ UNCHANGED <<probe, webhooks, webhookUrl>>
  \/ \E i \in DOMAIN webhooks : WebhookDelivered(i)
  \/ \E i \in DOMAIN webhooks : WebhookFailed(i)
  \/ \E i \in DOMAIN webhooks : WebhookRetry(i)
  \/ Tick /\ UNCHANGED <<probe, webhooks, webhookUrl>>

HookSpec == HookInit /\ [][HookNext]_vars

\* the client of PaySpec and the maintenance task
CleanNext ==
  \/ PayNext
  \/ Cleanup /\ UNCHANGED <<probe, webhooks, webhookUrl>>

CleanSpec == Init /\ [][CleanNext]_vars

\* direct calls of sendOrderCreated, and so of sendWebhook, with
\* OPENAI_WEBHOOK_URL configured or not; a fetch that was started resolves or
\* rejects and a timer that was set fires
SendInit ==
  /\ file = EmptyFile
  /\ uuid = [session |-> 0, order |-> 0, token |-> 0]
  /\ idempotencyStore = <<>>
  /\ reqs = [r \in Reqs |-> IdleReq]
  /\ now = 0
  /\ probe = NoProbe
  /\ webhooks = <<>>
  /\ webhookUrl \in BOOLEAN

CallSendOrderCreated(checkoutSessionId) ==
  /\ Len(webhooks) < MaxReq
  /\ webhooks' = sendOrderCreated(webhooks, webhookUrl, Len(webhooks) + 1, checkoutSessionId)
  /\ UNCHANGED <<file, idempotencyStore, reqs, now, uuid, probe, webhookUrl>>

SendNext ==
  \/ \E sid \in SessionIds : CallSendOrderCreated(sid)
  \/ \E i \in DOMAIN webhooks : WebhookDelivered(i)
  \/ \E i \in DOMAIN webhooks : WebhookFailed(i)
  \/ \E i \in DOMAIN webhooks : WebhookRetry(i)

SendSpec ==
  /\ SendInit /\ [][SendNext]_vars
  /\ \A i \in 1..MaxReq :
       /\ WF_vars(i \in DOMAIN webhooks /\ (WebhookDelivered(i) \/ WebhookFailed(i)))
       /\ WF_vars(i \in DOMAIN webhooks /\ WebhookRetry(i))

(* ---------------- properties ---------------- *)

Code(r) == IF reqs[r].resp.status < 400 THEN "ok" ELSE reqs[r].resp.body.code
IsDone(r) == reqs[r].pc = "done"
Charged(r) == reqs[r].charge.made
HasKey(r) == reqs[r].pc # "idle" /\ IsSet(reqs[r].key)
\* same operation, target, key and body
SameCall(q, r) ==
  /\ reqs[q].op = reqs[r].op /\ reqs[q].sid = reqs[r].sid
  /\ reqs[q].key = reqs[r].key /\ reqs[q].body = reqs[r].body
UsesVaultToken(r) ==
  /\ reqs[r].op = "complete" /\ IsSet(reqs[r].body.payment_data)
  /\ isDelegatedToken(reqs[r].body.payment_data[1].token)
Live == {"not_ready_for_payment", "ready_for_payment"}
Terminal == {"completed", "canceled"}
Arrives(r) == reqs[r].pc = "idle" /\ reqs'[r].pc # "idle"

\* C1: of two complete requests that use the same delegated token on the same
\* session and were in flight together, when one succeeded (and Stripe declined
\* neither and neither failed internally) the other one was rejected with
\* token_already_used and made no charge.
C1_OneConcurrentCompleteWins ==
  \A q, r \in Reqs :
    ( /\ q # r /\ (q \in reqs[r].peers \/ r \in reqs[q].peers)
      /\ UsesVaultToken(q) /\ UsesVaultToken(r)
      /\ reqs[q].sid = reqs[r].sid /\ reqs[q].body = reqs[r].body
      /\ IsDone(q) /\ IsDone(r)
      /\ reqs[q].mw = "handler" /\ reqs[r].mw = "handler"
      /\ Code(r) \notin {"payment_declined", "internal_error"}
      /\ reqs[q].resp.status = 201 )
    => /\ Code(r) = "token_already_used"
       /\ ~Charged(r)

\* C2: a stored token that is used stays used in every later stored state.
C2_UsedIsMonotonic ==
  [][\A t \in DOMAIN file.delegated_tokens :
       (file.delegated_tokens[t].used /\ t \in DOMAIN file'.delegated_tokens)
         => file'.delegated_tokens[t].used]_vars

\* C3: for every session at most one charge is made and at most one order
\* with its checkout_session_id is stored.
C3_OneChargeOneOrder ==
  \A sid \in SessionIds :
    /\ Cardinality({r \in Reqs : reqs[r].op = "complete" /\ reqs[r].sid = sid
                                 /\ Charged(r)}) <= 1
    /\ Cardinality({o \in DOMAIN file.orders :
                      file.orders[o].checkout_session_id = sid}) <= 1

\* C4: when two requests with the same Idempotency-Key, operation, target and
\* body were in flight together and neither failed internally, the second
\* was answered with the first one's response and only one of them charged.
C4_ConcurrentSameKeyRunsOnce ==
  \A q, r \in Reqs :
    ( /\ q < r /\ q \in reqs[r].peers
      /\ HasKey(q) /\ SameCall(q, r)
      /\ IsDone(q) /\ IsDone(r)
      /\ reqs[q].resp.status < 500 /\ reqs[r].resp.status < 500 )
    => /\ reqs[r].resp = reqs[q].resp
       /\ ~(Charged(q) /\ Charged(r))

\* C5: a complete request retried with the same Idempotency-Key and body after
\* its first attempt has ended never makes a second charge.
C5_RetryNeverChargesTwice ==
  \A q, r \in Reqs :
    ( /\ q < r /\ q \notin reqs[r].peers
      /\ reqs[q].op = "complete" /\ HasKey(q) /\ SameCall(q, r) )
    => ~(Charged(q) /\ Charged(r))

\* the only earlier request that carried r's key is q, and q has finished
FirstUseOfKey(q, r) ==
  /\ q # r /\ IsDone(q) /\ IsSet(reqs[q].key)
  /\ \A p \in Reqs : (p # r /\ HasKey(p) /\ reqs[p].key = reqs[q].key) => p = q

Conflict409 ==
  [status |-> 409, body |-> [type |-> "invalid_request", code |-> "idempotency_conflict"]]

C7_KeysScopedPerOperation ==
  \A r \in Reqs :
    (reqs[r].pc # "idle" /\ reqs[r].mw \in {"replay", "conflict"})
      => \E q \in 1..(r - 1) :
            /\ reqs[q].key = reqs[r].key
            /\ reqs[q].op = reqs[r].op /\ reqs[q].sid = reqs[r].sid

LegalEdge(old, new) ==
  \/ old = new
  \/ old \in Live /\ new \in Live
  \/ old = "ready_for_payment" /\ new = "completed"
  \/ old \in Live /\ new = "canceled"

\* C8: a stored session's status moves only along the legal edges, and a
\* stored session that is completed or canceled never changes again.
C8_LegalEdgesAndTerminalFrozen ==
  [][\A sid \in DOMAIN file.checkout_sessions :
       /\ sid \in DOMAIN file'.checkout_sessions
       /\ LegalEdge(file.checkout_sessions[sid].status,
                    file'.checkout_sessions[sid].status)
       /\ file.checkout_sessions[sid].status \in Terminal
            => file'.checkout_sessions[sid] = file.checkout_sessions[sid]]_vars

\* C9: an update, complete or cancel that reaches its handler for a live
\* session whose expires_at has passed is rejected at once, charges nothing
\* and leaves the stored session canceled.
C9_ExpiredSessionRejected ==
  [][\A r \in Reqs :
       ( /\ Arrives(r) /\ reqs'[r].op \in {"update", "complete", "cancel"}
         /\ reqs'[r].mw = "handler"
         /\ reqs'[r].sid \in DOMAIN file.checkout_sessions
         /\ file.checkout_sessions[reqs'[r].sid].status \in Live
         /\ now > file.checkout_sessions[reqs'[r].sid].expires_at[1] )
       => /\ reqs'[r].pc = "done" /\ reqs'[r].resp.status >= 400
          /\ file'.checkout_sessions[reqs'[r].sid].status = "canceled"
          /\ file'.orders = file.orders]_vars

\* C10: a handler that writes a session writes it from the state that is
\* stored at the moment of the write, not from an older read.
C10_NoLostUpdate ==
  [][\A r \in Reqs :
       ( /\ reqs[r].pc \in {"update_build", "complete_store"}
         /\ reqs'[r].pc = "done"
         /\ file' # file )
       => reqs[r].data.checkout_sessions[reqs[r].sid]
            = file.checkout_sessions[reqs[r].sid]]_vars

\* a handler's last segment: it stores (or fails to) and responds
Finishes(r) ==
  /\ reqs[r].pc \in {"create_build", "update_build", "complete_store"}
  /\ reqs'[r].pc = "done"
\* the session a request is about: the generated id for create, else the :id
Target(r) == IF reqs[r].op = "create" THEN reqs[r].sessionId ELSE reqs[r].sid
OptionIds(session) ==
  {session.fulfillment_options[i].id : i \in 1..Len(session.fulfillment_options)}
HasError(session) ==
  \E i \in 1..Len(session.messages) : session.messages[i].type = "error"
\* the amount of the first totals entry of a type, 0 when there is none
AmountOf(session, type) ==
  LET idx == {i \in 1..Len(session.totals) : session.totals[i].type = type}
  IN IF idx = {} THEN 0
     ELSE session.totals[CHOOSE i \in idx : \A j \in idx : i <= j].amount
OptionOf(session, id) ==
  session.fulfillment_options[CHOOSE i \in 1..Len(session.fulfillment_options) :
                                session.fulfillment_options[i].id = id]

\* C11: for a client that sends one request at a time: a successful create
\* with one resolvable item and no address stores not_ready_for_payment; a
\* successful update that adds an address stores a non-empty
\* fulfillment_options; a successful update that selects one of the stored
\* options of a session with one line item and an address stores
\* ready_for_payment with total = item base amount + item tax + option subtotal
\* + option tax; and a successful complete with an unused, unexpired delegated
\* token bound to the session, whose max_amount equals that total and whose
\* currency matches, stores status completed with an order and leaves the
\* stored token with used = true.
C11_SequentialScenario ==
  [][\A r \in Reqs :
       (Finishes(r) /\ reqs'[r].resp.status < 400) =>
         LET rq == reqs[r]
             sid == Target(r)
             new == file'.checkout_sessions[sid]
         IN /\ ( /\ rq.op = "create" /\ rq.body.items = Some(GoodItems)
                 /\ ~IsSet(rq.body.fulfillment_address) )
                 => new.status = "not_ready_for_payment"
            /\ (rq.op = "update" /\ IsSet(rq.body.fulfillment_address))
                 => new.fulfillment_options # <<>>
            /\ ( /\ rq.op = "update" /\ IsSet(rq.body.fulfillment_option_id)
                 /\ Len(file.checkout_sessions[sid].line_items) = 1
                 /\ ~HasError(file.checkout_sessions[sid])
                 /\ IsSet(file.checkout_sessions[sid].fulfillment_address)
                 /\ rq.body.fulfillment_option_id[1]
                      \in OptionIds(file.checkout_sessions[sid]) )
                 => /\ new.status = "ready_for_payment"
                    /\ AmountOf(new, "total") =
                         new.line_items[1].base_amount + new.line_items[1].tax
                         + OptionOf(new, rq.body.fulfillment_option_id[1]).subtotal
                         + OptionOf(new, rq.body.fulfillment_option_id[1]).tax
            /\ ( /\ UsesVaultToken(r)
                 /\ rq.body.payment_data[1].token \in DOMAIN file.delegated_tokens
                 /\ LET token == file.delegated_tokens[rq.body.payment_data[1].token]
                    IN /\ token.allowance.checkout_session_id = sid
                       /\ token.allowance.max_amount
                            = AmountOf(file.checkout_sessions[sid], "total")
                       /\ token.allowance.currency = file.checkout_sessions[sid].currency
                       /\ now <= token.allowance.expires_at )
                 => /\ new.status = "completed"
                    /\ IsSet(new.order)
                    /\ file'.delegated_tokens[rq.body.payment_data[1].token].used]_vars

\* the six checks of the token validation in the stated order, each with the
\* code of its failure, for the arguments of one call
C12_Checks(a) ==
  LET exists == a.vaultTokenId \in DOMAIN a.tokens
      token == a.tokens[a.vaultTokenId]
  IN << [pass |-> exists, code |-> "invalid_token"],
        [pass |-> exists /\ ~token.used, code |-> "token_already_used"],
        [pass |-> exists /\ a.t <= token.allowance.expires_at, code |-> "token_expired"],
        [pass |-> exists /\ token.allowance.checkout_session_id = a.checkoutSessionId,
         code |-> "invalid_session"],
        [pass |-> exists /\ a.amount <= token.allowance.max_amount,
         code |-> "amount_exceeds_allowance"],
        [pass |-> exists /\ a.currency = token.allowance.currency,
         code |-> "currency_mismatch"] >>

CompleteArrives(r) ==
  /\ Arrives(r) /\ reqs'[r].op = "complete" /\ reqs'[r].mw = "handler"
  /\ IsSet(reqs'[r].body.payment_data)
  /\ reqs'[r].body.payment_data[1].token.prefix = "vt_"
  /\ reqs'[r].body.payment_data[1].token \in DOMAIN file.delegated_tokens
  /\ reqs'[r].sid \in DOMAIN file.checkout_sessions
TokenOf(r) == file.delegated_tokens[reqs'[r].body.payment_data[1].token]
SessionOf(r) == file.checkout_sessions[reqs'[r].sid]
\* rejected at once with this code, nothing charged, nothing stored
RejectedWith(r, code) ==
  /\ reqs'[r].pc = "done" /\ reqs'[r].resp.status >= 400
  /\ reqs'[r].resp.body.code = code
  /\ ~reqs'[r].charge.made
  /\ file' = file

\* C13 as stated: a complete request on a ready_for_payment session whose
\* total exceeds the delegated token's max_amount is rejected with
\* amount_exceeds_allowance, makes no charge and changes neither the token
\* nor the session.
C13_ExceedingTotalRejected ==
  [][\A r \in Reqs :
       ( /\ CompleteArrives(r)
         /\ SessionOf(r).status = "ready_for_payment"
         /\ AmountOf(SessionOf(r), "total") > TokenOf(r).allowance.max_amount )
       => RejectedWith(r, "amount_exceeds_allowance")]_vars

\* C13 amended: when the token is also unused, unexpired (now <= expires_at)
\* and bound to the session, the request is rejected with
\* amount_exceeds_allowance, makes no charge, and the file (the token unused,
\* the session ready_for_payment) is unchanged.
C13_ExceedingTotalOfUsableToken ==
  [][\A r \in Reqs :
       ( /\ CompleteArrives(r)
         /\ SessionOf(r).status = "ready_for_payment"
         /\ AmountOf(SessionOf(r), "total") > TokenOf(r).allowance.max_amount
         /\ ~TokenOf(r).used
         /\ now <= TokenOf(r).allowance.expires_at
         /\ TokenOf(r).allowance.checkout_session_id = reqs'[r].sid )
       => RejectedWith(r, "amount_exceeds_allowance")]_vars

\* a complete was answered amount_exceeds_allowance, its token is stored
\* unused with a max_amount below the total of its session, which is stored
\* ready_for_payment, and nothing was charged
C13_Witness ==
  \E r \in Reqs :
    /\ IsDone(r) /\ UsesVaultToken(r) /\ Code(r) = "amount_exceeds_allowance"
    /\ ~Charged(r)
    /\ reqs[r].body.payment_data[1].token \in DOMAIN file.delegated_tokens
    /\ ~file.delegated_tokens[reqs[r].body.payment_data[1].token].used
    /\ file.checkout_sessions[reqs[r].sid].status = "ready_for_payment"
    /\ AmountOf(file.checkout_sessions[reqs[r].sid], "total")
         > file.delegated_tokens[reqs[r].body.payment_data[1].token].allowance.max_amount

\* C14 as stated: a complete request using a stored, unused delegated token
\* whose expires_at is earlier than now is rejected with token_expired, makes
\* no charge and changes nothing stored.
C14_ExpiredTokenRejected ==
  [][\A r \in Reqs :
       ( /\ CompleteArrives(r)
         /\ ~TokenOf(r).used
         /\ TokenOf(r).allowance.expires_at < now )
       => RejectedWith(r, "token_expired")]_vars

\* C14 amended: on a ready_for_payment session, a complete request using a
\* stored, unused delegated token whose expires_at is earlier than now is
\* rejected with token_expired, whatever its session binding and max_amount;
\* no charge is made and nothing stored changes.
C14_ExpiredTokenOnReadySession ==
  [][\A r \in Reqs :
       ( /\ CompleteArrives(r)
         /\ SessionOf(r).status = "ready_for_payment"
         /\ ~TokenOf(r).used
         /\ TokenOf(r).allowance.expires_at < now )
       => RejectedWith(r, "token_expired")]_vars

\* a complete on a ready_for_payment session was answered token_expired for
\* an unused token that is bound to another session and whose max_amount is
\* below the session's total
C14_Witness ==
  \E r \in Reqs :
    /\ IsDone(r) /\ UsesVaultToken(r) /\ Code(r) = "token_expired"
    /\ ~Charged(r)
    /\ reqs[r].body.payment_data[1].token \in DOMAIN file.delegated_tokens
    /\ LET token == file.delegated_tokens[reqs[r].body.payment_data[1].token]
           session == file.checkout_sessions[reqs[r].sid]
       IN /\ ~token.used
          /\ token.allowance.checkout_session_id # reqs[r].sid
          /\ token.allowance.max_amount < AmountOf(session, "total")
          /\ session.status = "ready_for_payment"

\* C15: a complete request that arrives at or after its delegated token's
\* expires_at, the instant now = expires_at included, is not accepted with
\* that token: it is rejected at once and nothing is charged.
C15_InvalidAtExpiry ==
  [][\A r \in Reqs :
       ( /\ CompleteArrives(r)
         /\ now >= TokenOf(r).allowance.expires_at )
       => /\ reqs'[r].pc = "done" /\ reqs'[r].resp.status >= 400
          /\ ~reqs'[r].charge.made]_vars

\* the complete requests whose handler stored an order for a session
Completions(sid) ==
  {r \in Reqs : /\ reqs[r].op = "complete" /\ reqs[r].sid = sid
                /\ IsDone(r) /\ reqs[r].mw = "handler"
                /\ reqs[r].resp.status = 201}

\* C16: a stored session that is not_ready_for_payment or ready_for_payment
\* has no order, and a stored session that is completed has an order that
\* exactly one completion has set.
C16_OrderSetExactlyOnce ==
  \A sid \in DOMAIN file.checkout_sessions :
    LET session == file.checkout_sessions[sid]
    IN /\ session.status \in Live => ~IsSet(session.order)
       /\ session.status = "completed"
            => IsSet(session.order) /\ Cardinality(Completions(sid)) = 1

\* the completeness predicate, read off a session
Complete17(session) ==
  /\ Len(session.line_items) >= 1
  /\ ~HasError(session)
  /\ IsSet(session.fulfillment_address)
  /\ IsSet(session.fulfillment_option_id)
  /\ session.fulfillment_option_id[1] \in OptionIds(session)

\* C17: the session a successful create or update stores is
\* ready_for_payment iff it has at least one line item, no error-type
\* message, a fulfillment address and a fulfillment_option_id that is the id
\* of one of its own fulfillment_options; otherwise it is
\* not_ready_for_payment, in particular whenever it has an error-type message.
C17_ReadyIffComplete ==
  [][\A r \in Reqs :
       ( /\ Finishes(r) /\ reqs[r].op \in {"create", "update"}
         /\ reqs'[r].resp.status < 400 )
       => LET new == file'.checkout_sessions[Target(r)]
          IN /\ new.status = IF Complete17(new) THEN "ready_for_payment"
                                                ELSE "not_ready_for_payment"
             /\ HasError(new) => new.status = "not_ready_for_payment"]_vars

\* an update stored a session with an address and a selected option of its
\* own that is not_ready_for_payment because of an error-type message
C17_Witness ==
  \E r \in Reqs :
    /\ IsDone(r) /\ reqs[r].op = "update" /\ reqs[r].resp.status = 200
    /\ file.checkout_sessions[reqs[r].sid] = reqs[r].resp.body
    /\ LET session == file.checkout_sessions[reqs[r].sid]
       IN /\ HasError(session) /\ Len(session.line_items) >= 1
          /\ IsSet(session.fulfillment_address)
          /\ IsSet(session.fulfillment_option_id)
          /\ session.fulfillment_option_id[1] \in OptionIds(session)
          /\ session.status = "not_ready_for_payment"

\* C18: in every stored session a fulfillment_option_id that is set is the
\* id of one of that session's fulfillment_options.
C18_SelectedOptionExists ==
  \A sid \in DOMAIN file.checkout_sessions :
    LET session == file.checkout_sessions[sid]
    IN IsSet(session.fulfillment_option_id)
         => session.fulfillment_option_id[1] \in OptionIds(session)

\* the {id, quantity} of the line items of a session
ItemsOf(session) == [i \in 1..Len(session.line_items) |-> session.line_items[i].item]
Resolvable(item) == KnownProduct(item.id)

\* C19: a successful update leaves buyer, fulfillment_address and
\* fulfillment_option_id, when the body omits them, as they were stored
\* before the update, and the items of the line items likewise; a supplied
\* field takes the supplied value; and the derived fields follow the merged
\* values: options are offered iff there is an address, the items base amount
\* is the sum over the line items, and the status is that of the
\* completeness predicate.
C19_OmittedFieldsKept ==
  [][\A r \in Reqs :
       ( /\ Finishes(r) /\ reqs[r].op = "update"
         /\ reqs'[r].resp.status < 400 )
       => LET old == file.checkout_sessions[reqs[r].sid]
              new == file'.checkout_sessions[reqs[r].sid]
              body == reqs[r].body
          IN /\ \A f \in {"buyer", "fulfillment_address", "fulfillment_option_id"} :
                  new[f] = IF IsSet(body[f]) THEN body[f] ELSE old[f]
             /\ ItemsOf(new) = IF IsSet(body.items)
                               THEN SelectSeq(body.items[1], Resolvable)
                               ELSE ItemsOf(old)
             /\ (new.fulfillment_options # <<>>) <=> IsSet(new.fulfillment_address)
             /\ AmountOf(new, "items_base_amount")
                  = SumField(new.line_items, "base_amount")
             /\ new.status = IF Complete17(new) THEN "ready_for_payment"
                                                ELSE "not_ready_for_payment"]_vars

\* an update that supplied only a buyer stored the new buyer and kept the
\* address, the selected option and the items it found
C19_Witness ==
  \E r \in Reqs :
    /\ IsDone(r) /\ reqs[r].op = "update" /\ reqs[r].resp.status = 200
    /\ reqs[r].body.members = <<"buyer">>
    /\ file.checkout_sessions[reqs[r].sid] = reqs[r].resp.body
    /\ LET session == file.checkout_sessions[reqs[r].sid]
       IN /\ session.buyer = reqs[r].body.buyer
          /\ session.fulfillment_address = Some("a1")
          /\ session.fulfillment_option_id = Some("shipping_standard")
          /\ ItemsOf(session) = GoodItems

\* C20: in every stored session the amount of the total entry is subtotal -
\* discount + fulfillment + tax + fees over the amounts of its other totals
\* entries, an absent entry counting as 0.
C20_TotalIsSumOfEntries ==
  \A sid \in DOMAIN file.checkout_sessions :
    LET session == file.checkout_sessions[sid]
    IN AmountOf(session, "total")
         = AmountOf(session, "subtotal") - AmountOf(session, "discount")
           + AmountOf(session, "fulfillment") + AmountOf(session, "tax")
           + AmountOf(session, "fee")

\* an update stored a session whose total is made of a subtotal, a
\* fulfillment amount and a tax that are all positive
C20_Witness ==
  \E r \in Reqs :
    /\ IsDone(r) /\ reqs[r].op = "update" /\ reqs[r].resp.status = 200
    /\ file.checkout_sessions[reqs[r].sid] = reqs[r].resp.body
    /\ LET session == file.checkout_sessions[reqs[r].sid]
       IN /\ AmountOf(session, "subtotal") > 0
          /\ AmountOf(session, "fulfillment") > 0
          /\ AmountOf(session, "tax") > 0
          /\ AmountOf(session, "total")
               = AmountOf(session, "subtotal") + AmountOf(session, "fulfillment")
                 + AmountOf(session, "tax")

HandlerArrives(r, op) ==
  /\ Arrives(r) /\ reqs'[r].op = op /\ reqs'[r].mw = "handler"
  /\ reqs'[r].sid \in DOMAIN file.checkout_sessions

\* C22: a cancel request on a stored session that is completed is rejected
\* with status 405 and the file (the completed session, its order) does not
\* change.
C22_CancelCompletedIs405 ==
  [][\A r \in Reqs :
       (HandlerArrives(r, "cancel") /\ SessionOf(r).status = "completed")
       => /\ reqs'[r].pc = "done"
          /\ reqs'[r].resp.status = 405
          /\ file' = file]_vars

C24_NotReadyRejected ==
  [][\A r \in Reqs :
       ( /\ HandlerArrives(r, "complete")
         /\ IsSet(reqs'[r].body.payment_data)
         /\ SessionOf(r).status # "ready_for_payment" )
       => RejectedWith(r, "session_not_ready")]_vars

\* a complete with a usable delegated token was answered session_not_ready
\* on a session stored not_ready_for_payment; no charge, no order, the token
\* unused
C24_Witness ==
  \E r \in Reqs :
    /\ IsDone(r) /\ UsesVaultToken(r) /\ Code(r) = "session_not_ready"
    /\ ~Charged(r)
    /\ file.checkout_sessions[reqs[r].sid].status = "not_ready_for_payment"
    /\ ~IsSet(file.checkout_sessions[reqs[r].sid].order)
    /\ file.orders = <<>>
    /\ reqs[r].body.payment_data[1].token \in DOMAIN file.delegated_tokens
    /\ ~file.delegated_tokens[reqs[r].body.payment_data[1].token].used

C27_RecordWrittenOnce ==
  [][\A k \in DOMAIN idempotencyStore :
       /\ k \in DOMAIN idempotencyStore'
       /\ idempotencyStore'[k] = idempotencyStore[k]]_vars

\* two bodies with the same members and values, in whatever order
SameMembers(a, b) ==
  /\ {a.members[i] : i \in 1..Len(a.members)} = {b.members[i] : i \in 1..Len(b.members)}
  /\ Len(a.members) = Len(b.members)
  /\ [a EXCEPT !.members = <<>>] = [b EXCEPT !.members = <<>>]

\* C28: a request that repeats the key of a finished request of the same
\* operation and target with a body of the same members, in whatever order,
\* is answered with the recorded response and not with idempotency_conflict.
C28_MemberOrderIgnored ==
  \A q, r \in Reqs :
    ( /\ q < r /\ q \notin reqs[r].peers /\ FirstUseOfKey(q, r)
      /\ HasKey(r) /\ reqs[r].key = reqs[q].key
      /\ reqs[q].resp.status < 500
      /\ reqs[q].op = reqs[r].op /\ reqs[q].sid = reqs[r].sid
      /\ SameMembers(reqs[q].body, reqs[r].body) )
    => /\ reqs[r].mw = "replay"
       /\ reqs[r].resp = reqs[q].resp

\* C29: a retrieval of a stored session whose expires_at has passed and whose
\* stored status is not_ready_for_payment or ready_for_payment reports the
\* session as canceled.
C29_ExpiredReadAsCanceled ==
  [][\A r \in Reqs :
       ( /\ HandlerArrives(r, "retrieve")
         /\ SessionOf(r).status \in Live
         /\ now > SessionOf(r).expires_at[1] )
       => /\ reqs'[r].resp.status = 200
          /\ reqs'[r].resp.body.status = "canceled"]_vars

\* C30: the amount and the currency of the charge a complete request makes
\* are the amount of the stored session's total entry and the stored
\* session's currency, whatever the request body holds.
C30_ChargeIsStoredTotal ==
  \A r \in Reqs :
    ( /\ reqs[r].op = "complete"
      /\ reqs[r].pc \in {"await_charge", "complete_store"} )
    => /\ reqs[r].charge.amount = AmountOf(file.checkout_sessions[reqs[r].sid], "total")
       /\ reqs[r].charge.currency = file.checkout_sessions[reqs[r].sid].currency

\* a complete whose body names an amount of its own charged the stored
\* session's total, which differs from it and from the subtotal
C30_Witness ==
  \E r \in Reqs :
    /\ reqs[r].op = "complete" /\ reqs[r].pc = "complete_store"
    /\ reqs[r].charge.made
    /\ IsSet(reqs[r].body.amount)
    /\ reqs[r].charge.amount # reqs[r].body.amount[1]
    /\ reqs[r].charge.amount = AmountOf(file.checkout_sessions[reqs[r].sid], "total")
    /\ reqs[r].charge.amount # AmountOf(file.checkout_sessions[reqs[r].sid], "subtotal")

\* C33: every response to a request that carries an Idempotency-Key header
\* carries that value as its Idempotency-Key response header.
C33_KeyEchoedInResponse ==
  \A r \in Reqs :
    (IsDone(r) /\ IsSet(reqs[r].key))
    => reqs[r].idempotencyKeyHeader = reqs[r].key

\* C34: a create request whose body has an rtg_cart_id and no items is
\* accepted: the handler goes on to build the session and answers with no
\* validation error.
C34_CartIdAccepted ==
  [][\A r \in Reqs :
       ( /\ Arrives(r) /\ reqs'[r].op = "create" /\ reqs'[r].mw = "handler"
         /\ IsSet(reqs'[r].body.rtg_cart_id) /\ ~IsSet(reqs'[r].body.items) )
       => /\ reqs'[r].pc = "create_build"
          /\ reqs'[r].resp.status < 400]_vars

\* the session has an error-type message that names the item
NamesItem(session, item) ==
  \E i \in 1..Len(session.messages) :
    session.messages[i].type = "error" /\ session.messages[i].param = item.id

\* C35: the session a successful create returns has an error-type message
\* naming every item of the body the catalog cannot resolve and is
\* not_ready_for_payment; and a successful update whose body omits items
\* keeps every error-type message of the stored session and the status
\* not_ready_for_payment that goes with it.
C35_ItemErrorPersists ==
  [][\A r \in Reqs :
       /\ ( /\ Finishes(r) /\ reqs[r].op = "create" /\ reqs'[r].resp.status < 400 )
          => \A i \in 1..Len(reqs[r].body.items[1]) :
               LET item == reqs[r].body.items[1][i] IN
               ~Resolvable(item)
               => /\ NamesItem(reqs'[r].resp.body, item)
                  /\ reqs'[r].resp.body.status = "not_ready_for_payment"
       /\ ( /\ Finishes(r) /\ reqs[r].op = "update" /\ reqs'[r].resp.status < 400
            /\ ~IsSet(reqs[r].body.items) )
          => LET old == file.checkout_sessions[reqs[r].sid]
                 new == file'.checkout_sessions[reqs[r].sid]
             IN \A i \in 1..Len(old.messages) :
                  old.messages[i].type = "error"
                  => /\ \E j \in 1..Len(new.messages) : new.messages[j] = old.messages[i]
                     /\ new.status = "not_ready_for_payment"]_vars

\* the delegated tokens a request may consume: the one its body names
OwnTokens(rq) ==
  IF rq.op = "complete" /\ IsSet(rq.body.payment_data)
  THEN {rq.body.payment_data[1].token} ELSE {}

\* C36: a step of a create, update, complete or cancel request changes and
\* removes no stored session other than its own, no stored order, and no
\* delegated token other than the one its body names.
C36_OtherRecordsUntouched ==
  [][\A r \in Reqs :
       ( /\ reqs'[r] # reqs[r]
         /\ reqs'[r].op \in {"create", "update", "complete", "cancel"} )
       => /\ \A sid \in DOMAIN file.checkout_sessions :
               sid # (IF reqs'[r].op = "create" THEN reqs'[r].sessionId ELSE reqs'[r].sid)
               => /\ sid \in DOMAIN file'.checkout_sessions
                  /\ file'.checkout_sessions[sid] = file.checkout_sessions[sid]
          /\ \A o \in DOMAIN file.orders :
               o \in DOMAIN file'.orders /\ file'.orders[o] = file.orders[o]
          /\ \A t \in DOMAIN file.delegated_tokens \ OwnTokens(reqs'[r]) :
               /\ t \in DOMAIN file'.delegated_tokens
               /\ file'.delegated_tokens[t] = file.delegated_tokens[t]]_vars

\* C37: when no request is in flight, the number of orders stored for a
\* session is the number of charges made for it.
C37_OrdersMatchCharges ==
  (\A r \in Reqs : ~InFlight(r))
  => \A sid \in SessionIds :
       Cardinality({o \in DOMAIN file.orders : file.orders[o].checkout_session_id = sid})
         = Cardinality({r \in Reqs : reqs[r].op = "complete" /\ reqs[r].sid = sid
                                      /\ Charged(r)})

\* C38: when the handler answered a complete request that carries an
\* Idempotency-Key with a 4xx, a request that arrives later with that key
\* and the same body is answered by the middleware with that same response;
\* it makes no charge and the file does not change.
C38_ErrorResponseReplayed ==
  [][\A q, r \in Reqs :
       ( /\ IsDone(q) /\ reqs[q].op = "complete" /\ reqs[q].mw = "handler"
         /\ IsSet(reqs[q].key)
         /\ reqs[q].resp.status >= 400 /\ reqs[q].resp.status < 500
         /\ Arrives(r)
         /\ reqs'[r].key = reqs[q].key /\ reqs'[r].body = reqs[q].body )
       => /\ reqs'[r].pc = "done" /\ reqs'[r].mw = "replay"
          /\ reqs'[r].resp = reqs[q].resp
          /\ ~reqs'[r].charge.made
          /\ file' = file]_vars

\* a declined complete was repeated with its key and body and answered
\* payment_declined from the cache while the session is stored
\* ready_for_payment and the token is stored unused and unexpired
C38_Witness ==
  \E q, r \in Reqs :
    /\ q < r /\ IsDone(q) /\ IsDone(r)
    /\ UsesVaultToken(q) /\ reqs[q].mw = "handler" /\ Code(q) = "payment_declined"
    /\ HasKey(q) /\ SameCall(q, r)
    /\ reqs[r].mw = "replay" /\ reqs[r].resp = reqs[q].resp /\ ~Charged(r)
    /\ file.checkout_sessions[reqs[r].sid].status = "ready_for_payment"
    /\ ~file.delegated_tokens[reqs[r].body.payment_data[1].token].used
    /\ now <= file.delegated_tokens[reqs[r].body.payment_data[1].token].allowance.expires_at

\* a complete request hands its notification over in this step
HandsOver(r) ==
  /\ reqs[r].pc = "complete_store" /\ reqs'[r] # reqs[r]
  /\ Len(webhooks') > Len(webhooks)

\* C31: the step in which a complete request hands the notification to the
\* webhook sender is the step in which it responds 201, while the delivery
\* (when a URL is configured) is still awaiting its first fetch; and no step
\* of a delivery (success, failure, retry) changes a response, the file or
\* the idempotency store.
C31_ResponseNotBlockedByWebhook ==
  [][/\ \A r \in Reqs :
          HandsOver(r)
          => /\ reqs'[r].pc = "done" /\ reqs'[r].resp.status = 201
             /\ webhookUrl => webhooks'[Len(webhooks')].pc = "fetch"
     /\ (webhooks' # webhooks /\ Len(webhooks') = Len(webhooks))
          => /\ reqs' = reqs /\ file' = file
             /\ idempotencyStore' = idempotencyStore]_vars

\* a complete was answered 201 and its notification was given up after three
\* failed attempts; the session is stored completed with its order
C31_Witness ==
  \E r \in Reqs, i \in DOMAIN webhooks :
    /\ IsDone(r) /\ reqs[r].op = "complete" /\ reqs[r].mw = "handler"
    /\ reqs[r].resp.status = 201
    /\ reqs[r].resp.body.order = Some([id |-> webhooks[i].payload.orderId,
                                       checkout_session_id |-> reqs[r].sid])
    /\ webhooks[i].returned = Some(FALSE)
    /\ webhooks[i].outcomes = <<"failed", "failed", "failed">>
    /\ file.checkout_sessions[reqs[r].sid] = reqs[r].resp.body
    /\ webhooks[i].payload.orderId \in DOMAIN file.orders

\* what every call of sendWebhook has done so far
SendWebhookBounded ==
  \A i \in DOMAIN webhooks :
    LET w == webhooks[i]
        made == Len(w.outcomes)
        ok == \E k \in 1..made : w.outcomes[k] = "ok"
    IN /\ w.attempt <= maxRetries /\ made <= maxRetries
       /\ \A k \in 1..Len(w.delays) : w.delays[k] = baseDelay * Pow2(k - 1)
       /\ w.attempt >= 1
            => Len(w.delays) = IF w.pc = "backoff" THEN w.attempt ELSE w.attempt - 1
       /\ w.pc = "backoff" => made = w.attempt
       /\ w.pc = "fetch" => made = w.attempt - 1
       /\ (w.returned = Some(TRUE)) <=> ok
       /\ (made = maxRetries /\ ~ok) => w.returned = Some(FALSE)
       /\ (w.returned = Some(FALSE) /\ webhookUrl) => (made = maxRetries /\ ~ok)
       /\ IsSet(w.returned) <=> w.pc = "returned"
       /\ ~webhookUrl => (made = 0 /\ w.attempt = 0 /\ w.returned = Some(FALSE))

\* C39: every call of sendWebhook makes at most maxRetries attempts; the
\* wait before attempt k + 1 is baseDelay * 2^(k-1); it has returned true iff
\* an attempt received an ok response, it has returned false once the third
\* attempt failed, and with no URL configured it makes no attempt and
\* returns false; and every call returns.
C39_SendWebhookTerminates ==
  /\ []SendWebhookBounded
  /\ \A i \in 1..MaxReq :
       (i \in DOMAIN webhooks)
         ~> (i \in DOMAIN webhooks /\ webhooks[i].pc = "returned")

\* a call that returned true on its third attempt, after waits of baseDelay
\* and twice baseDelay
C39_Witness ==
  \E i \in DOMAIN webhooks :
    /\ webhooks[i].outcomes = <<"failed", "failed", "ok">>
    /\ webhooks[i].delays = <<1000, 2000>>
    /\ webhooks[i].returned = Some(TRUE)

\* C40: a notification is handed to the webhook sender only in the step of
\* a complete request that writes the completed session and its order and
\* responds 201, one notification in that step, naming that order; a step
\* that ends a complete request in any other way (rejected, declined, failed,
\* answered from the idempotency cache) hands over none.
C40_OneNotificationPerCompletion ==
  [][/\ Len(webhooks') >= Len(webhooks)
     /\ Len(webhooks') > Len(webhooks)
          => /\ Len(webhooks') = Len(webhooks) + 1
             /\ \E r \in Reqs :
                  LET w == webhooks'[Len(webhooks')] IN
                  /\ reqs[r].pc = "complete_store" /\ reqs'[r].pc = "done"
                  /\ reqs'[r].resp.status = 201 /\ reqs'[r].mw = "handler"
                  /\ w.payload.type = "order_created"
                  /\ w.payload.checkout_session_id = reqs[r].sid
                  /\ file'.checkout_sessions[reqs[r].sid].status = "completed"
                  /\ file'.checkout_sessions[reqs[r].sid].order
                       = Some([id |-> w.payload.orderId, checkout_session_id |-> reqs[r].sid])
                  /\ w.payload.orderId \in DOMAIN file'.orders
                  /\ w.payload.orderId \notin DOMAIN file.orders
     /\ \A r \in Reqs :
          (reqs[r].pc # "done" /\ reqs'[r].pc = "done" /\ reqs'[r].op = "complete")
          => Len(webhooks') - Len(webhooks)
               = IF reqs'[r].mw = "handler" /\ reqs'[r].resp.status = 201
                 THEN 1 ELSE 0]_vars

\* a complete was executed and another with the same key and body was
\* answered from the cache with the same 201: one notification was handed over
C40_Witness ==
  \E q, r \in Reqs :
    /\ q < r /\ IsDone(q) /\ IsDone(r) /\ HasKey(q) /\ SameCall(q, r)
    /\ reqs[q].op = "complete" /\ reqs[q].mw = "handler" /\ reqs[q].resp.status = 201
    /\ reqs[r].mw = "replay" /\ reqs[r].resp.status = 201
    /\ Len(webhooks) = 1
    /\ webhooks[1].payload.checkout_session_id = reqs[q].sid

\* whether some completion could pass validateAllowance with a token
Acceptable(tokens, id, t) ==
  \E sid \in SessionIds, amount \in {0, TotalAmount(ReadySession)},
     currency \in {"usd", "eur"} :
    validateAllowance(tokens, id, sid, amount, currency, t).valid

\* C32: a run of the cleanup changes no session and no order, removes only
\* tokens whose allowance.expires_at lies more than TokenRetention in the
\* past, none of which validation would accept, leaves every other token as
\* it was, and leaves the verdict of validateAllowance on every token id the
\* same.
C32_CleanupOnlyReclaims ==
  [][(reqs' = reqs /\ now' = now /\ webhooks' = webhooks)
     => /\ file'.checkout_sessions = file.checkout_sessions
        /\ file'.orders = file.orders
        /\ DOMAIN file'.delegated_tokens \subseteq DOMAIN file.delegated_tokens
        /\ \A id \in DOMAIN file.delegated_tokens :
             IF id \in DOMAIN file'.delegated_tokens
             THEN file'.delegated_tokens[id] = file.delegated_tokens[id]
             ELSE /\ now - file.delegated_tokens[id].allowance.expires_at > TokenRetention
                  /\ ~Acceptable(file.delegated_tokens, id, now)
        /\ \A n \in 1..MaxTokens :
             Acceptable(file'.delegated_tokens, VaultTokenId(n), now)
               <=> Acceptable(file.delegated_tokens, VaultTokenId(n), now)]_vars

\* the cleanup removed an issued token that expired more than TokenRetention
\* ago and kept one that expired less long ago
C32_Witness ==
  \E r \in Reqs :
    /\ IsDone(r) /\ reqs[r].op = "issue" /\ reqs[r].resp.status = 201
    /\ reqs[r].resp.body.id \notin DOMAIN file.delegated_tokens
    /\ now - reqs[r].body.allowance[1].expires_at > TokenRetention
    /\ VaultTokenId(1) \in DOMAIN file.delegated_tokens
    /\ now > file.delegated_tokens[VaultTokenId(1)].allowance.expires_at

====
